---- MODULE Spec2Model ----
(***************************************************************************)
(* Verification model of the LSTM-autoencoder anomaly-detection pipeline   *)
(* of the cyber-threat-detector backend: the sequence builder              *)
(* (feature_extractor.py), the training pipeline (train.py), the trainer   *)
(* (lstm_autoencoder.py) and the inference engine (api/model_inference.py).*)
(*                                                                         *)
(* The module holds several specifications over one set of variables; a    *)
(* specification leaves the variables of the other components at their     *)
(* idle value.                                                             *)
(*   SpecSeq    - CybersecurityFeatureExtractor.create_sequences           *)
(*   SpecPipe   - CybersecurityTrainingPipeline.extract_features           *)
(*   SpecTrain  - CybersecurityLSTMTrainer: train, save_model, load_model  *)
(*   SpecThr    - CybersecurityTrainingPipeline.find_optimal_threshold     *)
(*   SpecLoad   - load_model / auto_load_latest_model next to save_results *)
(*   SpecReload - a model reload concurrent with analyze_single_log        *)
(*   SpecCompare  - the four error-against-threshold comparisons           *)
(*   SpecClassify - the score-to-level mappings of the repository          *)
(*   SpecAnalyze  - analyze_single_log, analyze_batch_logs, /detect/batch  *)
(*   SpecFit      - prepare_for_training and the serving transform         *)
(*   SpecRoundTrip - save_model / save_feature_config and load_model       *)
(*   SpecScores   - get_anomaly_scores, evaluate_model, the scoring tail   *)
(*   SpecRefit    - repeated prepare_for_training, save and load of config *)
(*   SpecGet      - concurrent first calls of get_inference_engine         *)
(*   SpecCount    - the performance counters over sequential calls         *)
(*   SpecDecode   - the decoder's initial hidden state                     *)
(***************************************************************************)
EXTENDS Integers, Sequences, FiniteSets, TLC

VARIABLES
    \* --- sequence builder (one CybersecurityFeatureExtractor and one call)
    X,                \* the feature matrix handed to create_sequences
    sequence_length,  \* self.sequence_length of the extractor
    window_size,      \* the window_size argument (None = not given)
    created,          \* None before the call, then the call's outcome
    \* --- training pipeline (CybersecurityTrainingPipeline)
    data,             \* train_data / val_data / test_data, by split name
    extracted,        \* None before extract_features, then what it returns
    \* --- trainer (a CybersecurityLSTMTrainer, its calls and its checkpoint file)
    epochs,                   \* the epochs argument of the last call of train
    early_stopping_patience,  \* its early_stopping_patience argument
    train_pc,                 \* "idle", "loop", "restore" or "done"
    epoch,                    \* epochs completed by that call so far
    tensors,                  \* tensor storage: address -> weights held there
    val_losses,               \* self.val_losses
    best_val_loss,            \* self.best_val_loss
    best_model_state,         \* self.best_model_state: None or a state dict
    patience_counter,         \* the local patience_counter of train
    checkpoint,               \* None, or what save_model wrote to the file
    \* --- threshold selector (one call of find_optimal_threshold)
    reconstruction_errors,    \* per-sequence errors of the validation set
    y_val,                    \* the validation labels
    selected,                 \* None before the call, then its outcome
    \* --- inference engine (one ThreatDetectionEngine) and the artifacts on disk
    disk,          \* the runs whose checkpoint / feature config / results file exist
    saving,        \* the training process inside save_results
    engine,        \* model, feature_extractor, optimal_threshold, is_loaded
    last_load,     \* None, or the last finished load call and how it ended
    good_loads,    \* what each successful load left in the engine (history)
    reload,        \* the thread inside a load call (POST /admin/reload_model)
    analyze,       \* the request thread inside analyze_single_log
    observed,      \* None, or what the last inference used of the engine
    \* --- one call of a scoring function or of the engine's analyze methods
    inputs,        \* None, or the arguments of the call
    outputs,       \* None before the call, then what it returned or raised
    \* --- one CybersecurityFeatureExtractor being fitted and then used
    extractor,     \* None, or the extractor: selector, scaler, feature_names, is_fitted
    fit_pc,        \* where prepare_for_training is
    \* --- the feature configuration file written by save_feature_config
    feature_config,      \* None, or the pickled dictionary
    \* --- the performance counters of the engine
    stats,               \* detection_count, threat_count, inference_times
    \* --- the module-level engine of model_inference.py and its callers
    _inference_engine,   \* the global: None, or the instance it refers to
    constructed,         \* the ThreatDetectionEngine instances built so far
    callers              \* the request threads inside get_inference_engine

seqVars == <<X, sequence_length, window_size, created>>
pipeVars == <<data, extracted>>
trainVars == <<epochs, early_stopping_patience, train_pc, epoch, tensors,
               val_losses, best_val_loss, best_model_state, patience_counter,
               checkpoint>>
thrVars == <<reconstruction_errors, y_val, selected>>
engVars == <<disk, saving, engine, last_load, good_loads, reload, analyze, observed>>
callVars == <<inputs, outputs>>
fitVars == <<extractor, fit_pc>>
fileVars == <<feature_config>>
statVars == <<stats>>
getVars == <<_inference_engine, constructed, callers>>
otherVars == <<fileVars, statVars, getVars>>
vars == <<seqVars, pipeVars, trainVars, thrVars, engVars, callVars, fitVars, otherVars>>

\* the variables of the other components, which a component's actions leave alone
notSeqVars == <<pipeVars, trainVars, thrVars, engVars, callVars, fitVars, otherVars>>
notPipeVars == <<seqVars, trainVars, thrVars, engVars, callVars, fitVars, otherVars>>
notTrainVars == <<seqVars, pipeVars, thrVars, engVars, callVars, fitVars, otherVars>>
notThrVars == <<seqVars, pipeVars, trainVars, engVars, callVars, fitVars, otherVars>>
notEngVars == <<seqVars, pipeVars, trainVars, thrVars, callVars, fitVars, otherVars>>
notCallVars == <<seqVars, pipeVars, trainVars, thrVars, engVars, fitVars, otherVars>>
notEngCallVars == <<seqVars, pipeVars, trainVars, thrVars, fitVars, otherVars>>
notEngCallStatVars == <<seqVars, pipeVars, trainVars, thrVars, fitVars, fileVars, getVars>>
notFitCallVars == <<seqVars, pipeVars, trainVars, thrVars, engVars, otherVars>>

\* Python's None and a present value: an optional is a sequence of length <= 1
None == <<>>
Some(v) == <<v>>
Get(o) == o[1]

(***************************************************************************)
(* Bounds of the model.                                                    *)
(***************************************************************************)
MaxRows == 4          \* rows of a feature matrix given to the sequence builder
MaxWindow == 3        \* largest window length tried in the sequence builder
MaxRecords == 52      \* largest split of the training pipeline
ShortSplit == 3       \* the short split of the training pipeline
WebServerFrom == 7    \* first record of a split read from a web server log
MaxEpochs == 4        \* largest epochs argument of train
MaxPatience == 2      \* largest early_stopping_patience argument of train
MaxLoss == 3          \* validation losses are drawn from 1..MaxLoss
MaxValidation == 4    \* largest validation set of the threshold selector
MaxError == 2         \* reconstruction errors are drawn from 0..MaxError
MaxRuns == 2          \* training runs whose artifacts may be on disk
MaxSaved == 1         \* longest loss history of a trainer whose checkpoint is saved

Dims == {1, 2}        \* feature dimensions tried (X.shape[1])
Cells == {0, 1}       \* values of one feature cell

(***************************************************************************)
(* Program constants.                                                      *)
(***************************************************************************)
SequenceLength == 50  \* sequence_length the pipeline constructs its extractor with
LabelSkip == 49       \* the literal of y_train[49:], y_val[49:], y_test[49:]
PercentileFrom == 50  \* np.arange(50, 99, 1): first candidate percentile
PercentileStop == 99  \* np.arange(50, 99, 1): stop (exclusive)

(***************************************************************************)
(* numpy helpers.  A 2-D array is a record [rows, dim]: rows is the        *)
(* sequence of its rows and dim is shape[1], which an array keeps even     *)
(* when it has no rows.                                                    *)
(***************************************************************************)
Zeros(n, d) == [i \in 1..n |-> [j \in 1..d |-> 0]]

VStack(A, B) == A \o B

\* X[i:i + w] with a 0-based i, in range
Slice(rows, i, w) == SubSeq(rows, i + 1, i + w)

(***************************************************************************)
(* CybersecurityFeatureExtractor.create_sequences(X, window_size).         *)
(* The outcome is [raised, value]: value is the returned 3-D array, as the *)
(* sequence of its windows, each window a sequence of rows.                *)
(***************************************************************************)
EffectiveWindow(w, seqlen) == IF w = None THEN seqlen ELSE Get(w)

\* range(len(X) - window_size): the loop bound without its + 1
create_sequences_short_range(M, w, seqlen) ==
    LET window == EffectiveWindow(w, seqlen)
        N == Len(M.rows)
    IN IF N < window
       THEN [raised |-> FALSE,
             value |-> <<VStack(Zeros(window - N, M.dim), M.rows)>>, dim |-> M.dim]
       ELSE [raised |-> FALSE,
             value |-> [i \in 1..(N - window) |-> Slice(M.rows, i - 1, window)],
             dim |-> M.dim]

\* np.vstack([X, padding]): the padding after the rows instead of before them
create_sequences_back_padding(M, w, seqlen) ==
    LET window == EffectiveWindow(w, seqlen)
        N == Len(M.rows)
    IN IF N < window
       THEN [raised |-> FALSE,
             value |-> <<VStack(M.rows, Zeros(window - N, M.dim))>>, dim |-> M.dim]
       ELSE [raised |-> FALSE,
             value |-> [i \in 1..(N - window + 1) |-> Slice(M.rows, i - 1, window)],
             dim |-> M.dim]

create_sequences(M, w, seqlen) ==
    LET window == EffectiveWindow(w, seqlen)
        N == Len(M.rows)
    IN IF N < window
       THEN LET padding == Zeros(window - N, M.dim)
                X_padded == VStack(padding, M.rows)
            IN [raised |-> FALSE, value |-> <<X_padded>>, dim |-> M.dim]
       ELSE [raised |-> FALSE,
             value |-> [i \in 1..(N - window + 1) |-> Slice(M.rows, i - 1, window)],
             dim |-> M.dim]

(***************************************************************************)
(* Idle values: what a specification leaves the other components at.       *)
(***************************************************************************)
IdleSeq ==
    /\ X = [rows |-> <<>>, dim |-> 1]
    /\ sequence_length = 1
    /\ window_size = None
    /\ created = None

IdlePipe ==
    /\ data = None
    /\ extracted = None

IdleTrain ==
    /\ epochs = 0
    /\ early_stopping_patience = 0
    /\ train_pc = "idle"
    /\ epoch = 0
    /\ tensors = <<>>
    /\ val_losses = <<>>
    /\ best_val_loss = 0
    /\ best_model_state = None
    /\ patience_counter = 0
    /\ checkpoint = None

IdleThr ==
    /\ reconstruction_errors = <<>>
    /\ y_val = <<>>
    /\ selected = None

\* ThreatDetectionEngine.__init__ without paths
NewEngine ==
    [model |-> None, feature_extractor |-> None, optimal_threshold |-> None,
     is_loaded |-> FALSE]

NoCall ==
    [pc |-> "idle", call |-> "none", model_files |-> {}, feature_files |-> {},
     model_path |-> 0, feature_config_path |-> 0, latest_results |-> 0,
     training_results |-> 0, started_on |-> {}]

NotAnalyzing == [pc |-> "idle"]

\* no save_results call in progress
NotSaving == [pc |-> "idle", run |-> 0]

\* no artifact of any run
EmptyDisk == [models |-> {}, features |-> {}, results |-> {}, partial |-> {}]

IdleEng ==
    /\ disk = EmptyDisk
    /\ saving = NotSaving
    /\ engine = NewEngine
    /\ last_load = None
    /\ good_loads = {}
    /\ reload = NoCall
    /\ analyze = NotAnalyzing
    /\ observed = None

IdleCall ==
    /\ inputs = None
    /\ outputs = None

IdleFit ==
    /\ extractor = None
    /\ fit_pc = "idle"

\* the counters ThreatDetectionEngine.__init__ sets
NewStats == [detection_count |-> 0, threat_count |-> 0, inference_times |-> <<>>]

IdleOther ==
    /\ feature_config = None
    /\ stats = NewStats
    /\ _inference_engine = None
    /\ constructed = <<>>
    /\ callers = <<>>

(***************************************************************************)
(* SpecSeq: one extractor, one feature matrix, one create_sequences call.  *)
(***************************************************************************)
RowsOf(d) == [1..d -> Cells]

Matrices ==
    UNION {
        { [rows |-> r, dim |-> d] : r \in [1..n -> RowsOf(d)] }
        : n \in 0..MaxRows, d \in Dims }

InitSeq ==
    /\ X \in Matrices
    /\ sequence_length \in 1..MaxWindow
    /\ window_size \in {None} \cup {Some(w) : w \in 1..MaxWindow}
    /\ created = None
    /\ IdlePipe
    /\ IdleTrain
    /\ IdleThr
    /\ IdleEng
    /\ IdleCall
    /\ IdleFit
    /\ IdleOther

CreateSequences ==
    /\ created = None
    /\ created' = Some(create_sequences(X, window_size, sequence_length))
    /\ UNCHANGED <<X, sequence_length, window_size, notSeqVars>>

NextSeq == CreateSequences

SpecSeq == InitSeq /\ [][NextSeq]_vars

(***************************************************************************)
(* C7: for every feature matrix with N > 0 rows and every window length    *)
(* L >= 1, create_sequences returns an array of shape (k, L, dim) with     *)
(* k >= 1, and exactly one sequence when N < L.                            *)
(***************************************************************************)
SequenceShapeInvariant ==
    (created # None /\ Len(X.rows) > 0) =>
        LET r == Get(created)
            L == EffectiveWindow(window_size, sequence_length)
        IN /\ ~r.raised
           /\ Len(r.value) >= 1
           /\ \A i \in 1..Len(r.value) :
                /\ Len(r.value[i]) = L
                /\ \A j \in 1..L : DOMAIN r.value[i][j] = 1..X.dim
           /\ (Len(X.rows) < L => Len(r.value) = 1)

\* a short, non-empty matrix has been turned into its one padded sequence
SequenceShapeWitness ==
    /\ created # None
    /\ Len(X.rows) = 2
    /\ EffectiveWindow(window_size, sequence_length) = MaxWindow
    /\ X.dim = 2
    /\ Len(Get(created).value) = 1
    /\ Len(Get(created).value[1]) = MaxWindow

(***************************************************************************)
(* C8: for N >= L create_sequences returns exactly N-L+1 sequences and     *)
(* sequence i (0-based) is rows i..i+L-1 of the input in order; for N < L  *)
(* the single sequence is L-N all-zero rows followed by the N input rows.  *)
(***************************************************************************)
ZeroRow(d) == [j \in 1..d |-> 0]

SlidingWindowsAndFrontPadding ==
    created # None =>
        LET r == Get(created)
            L == EffectiveWindow(window_size, sequence_length)
            N == Len(X.rows)
        IN IF N >= L
           THEN /\ Len(r.value) = N - L + 1
                /\ \A i \in 1..(N - L + 1) :
                     /\ Len(r.value[i]) = L
                     /\ \A j \in 1..L : r.value[i][j] = X.rows[i + j - 1]
           ELSE /\ Len(r.value) = 1
                /\ Len(r.value[1]) = L
                /\ \A j \in 1..L :
                     r.value[1][j] = IF j <= L - N THEN ZeroRow(X.dim)
                                     ELSE X.rows[j - (L - N)]

\* both cases have happened: a long matrix that is sliced into several windows ...
SlidingWindowsWitness ==
    /\ created # None
    /\ Len(X.rows) = MaxRows
    /\ EffectiveWindow(window_size, sequence_length) = 2
    /\ Len(Get(created).value) = MaxRows - 1
    /\ X.rows[1] # X.rows[2]

(***************************************************************************)
(* C9: create_sequences on an empty feature matrix (N = 0) fails with an   *)
(* error and never returns a sequence array.                               *)
(***************************************************************************)
EmptyInputIsAnError ==
    (created # None /\ Len(X.rows) = 0) => Get(created).raised

(***************************************************************************)
(* CybersecurityFeatureExtractor.extract_features, as far as it can raise. *)
(* A frame is the sequence of its rows; a row keeps the source and the     *)
(* log_type of its record.  A column name made of a prefix and a value is  *)
(* the pair <<prefix, value>>.                                             *)
(***************************************************************************)
\* str.lower() on the source names in use
Lower(name) ==
    CASE name = "KDD" -> "kdd"
      [] name = "AIT" -> "ait"
      [] name = "LogHub" -> "loghub"
      [] OTHER -> name

\* log_type.replace(' ', '_').replace('-', '_') on the log types in use
CleanName(name) == IF name = "auth log" THEN "auth_log" ELSE name

\* the one-hot columns _add_source_specific_features creates
OneHotColumns(df) ==
    {<<"is", Lower(df[i].source)>> : i \in 1..Len(df)}
        \cup {<<"is", CleanName(df[i].log_type)>> : i \in 1..Len(df)}

\* variant of RiskFactorColumns: the loghub risk factor is not computed
RiskFactorColumnsWithoutLoghub == {<<"is", "kdd">>, <<"is", "ait">>}

\* the columns its risk factors read: df['is_kdd'], df['is_ait'], df['is_loghub']
RiskFactorColumns == {<<"is", "kdd">>, <<"is", "ait">>, <<"is", "loghub">>}

\* variant of extractor_extract_features: the risk factors are not computed,
\* so that no one-hot column is read
extract_features_without_risk_factors(df) ==
    [raised |-> FALSE, value |-> Some([rows |-> df, one_hot |-> OneHotColumns(df)])]

\* CybersecurityFeatureExtractor.extract_features, as far as it can raise:
\* a missing one-hot column is a KeyError
extractor_extract_features(df) ==
    IF RiskFactorColumns \subseteq OneHotColumns(df)
    THEN [raised |-> FALSE, value |-> Some([rows |-> df, one_hot |-> OneHotColumns(df)])]
    ELSE [raised |-> TRUE, value |-> None]

(***************************************************************************)
(* SpecPipe: CybersecurityTrainingPipeline.extract_features on the three   *)
(* loaded splits.  A record of a split is [msg, is_attack, source,         *)
(* log_type]; msg numbers the records of a split from 1, so that a feature *)
(* row tells which record it was computed from.  The outcome of a call is  *)
(* [raised, value].                                                        *)
(***************************************************************************)
SplitNames == {"train", "val", "test"}

\* prepare_for_training maps record i of a split to row i of its matrix
\* (selection and scaling are row-wise); the row <<msg>> stands for the
\* selected, scaled feature vector of the record
FeatureRow(rec) == <<rec.msg>>

FeatureMatrix(df) ==
    [rows |-> [i \in 1..Len(df) |-> FeatureRow(df[i])], dim |-> 1]

\* _select_numeric_features(train_features), as far as it depends on the
\* records of the split: the one-hot columns are integer columns and none of
\* them is excluded
NumericOneHotColumns(features) == Get(features.value).one_hot

\* features[numeric_features]: a column the frame does not have is a KeyError
HasColumns(features, numeric_features) ==
    numeric_features \subseteq Get(features.value).one_hot

\* CybersecurityFeatureExtractor.prepare_for_training: extract_features on
\* the three splits, in order, the numeric columns of the training frame
\* taken from each of the three frames, then the three matrices
prepare_for_training(train_df, val_df, test_df) ==
    LET train_features == extractor_extract_features(train_df)
        val_features == extractor_extract_features(val_df)
        test_features == extractor_extract_features(test_df)
    IN IF train_features.raised \/ val_features.raised \/ test_features.raised
       THEN [raised |-> TRUE, value |-> None]
       ELSE LET numeric_features == NumericOneHotColumns(train_features)
            IN IF /\ HasColumns(val_features, numeric_features)
                  /\ HasColumns(test_features, numeric_features)
               THEN [raised |-> FALSE,
                     value |-> Some([train |-> FeatureMatrix(train_df),
                                     val |-> FeatureMatrix(val_df),
                                     test |-> FeatureMatrix(test_df)])]
               ELSE [raised |-> TRUE, value |-> None]

\* df['is_attack'].values
IsAttackValues(df) == [i \in 1..Len(df) |-> df[i].is_attack]

\* y[49:] with the literal of train.py; zero-aligned labels are the slip the
\* alignment rule warns about
AlignLabelsZeroAligned(y) ==
    IF Len(y) >= SequenceLength THEN SubSeq(y, 1, Len(y) - SequenceLength + 1) ELSE <<>>

AlignLabels(y) == SubSeq(y, LabelSkip + 1, Len(y))

extract_features(d) ==
    LET prepared == prepare_for_training(d["train"], d["val"], d["test"])
    IN IF prepared.raised
       THEN [raised |-> TRUE, value |-> None]
       ELSE LET Xs == Get(prepared.value)
            IN [raised |-> FALSE,
                value |-> Some(
                    [sequences |-> [s \in SplitNames |->
                         create_sequences(Xs[s], None, SequenceLength).value],
                     labels |-> [s \in SplitNames |->
                         AlignLabels(IsAttackValues(d[s]))]])]

\* the splits tried: sizes around the window length and one short split,
\* labels that mark one record (spike) or every record from one on (step),
\* and records that come from the three datasets in turn or from two of
\* them only; the AIT records of a split are web server lines from record
\* web_from on and authentication lines before it
SplitSizes == {ShortSplit} \cup ((SequenceLength - 1)..MaxRecords)

SourceMixes ==
    {[sources |-> <<"LogHub", "AIT", "KDD">>, web_from |-> 1],
     [sources |-> <<"LogHub", "AIT", "KDD">>, web_from |-> WebServerFrom],
     [sources |-> <<"LogHub", "AIT">>, web_from |-> 1]}

\* the log_type the loader gives record i of a dataset: auth.log and apache2
\* files for AIT, 'network_traffic' for KDD, the default 'system' for LogHub
LogTypeOf(source, i, web_from) ==
    CASE source = "KDD" -> "network_traffic"
      [] source = "AIT" -> IF i >= web_from THEN "web_server" ELSE "authentication"
      [] OTHER -> "system"

Frame(n, k, kind, mix) ==
    [i \in 1..n |->
        LET source == mix.sources[((i - 1) % Len(mix.sources)) + 1]
        IN [msg |-> i,
            is_attack |-> IF kind = "spike" THEN (IF i = k THEN 1 ELSE 0)
                          ELSE (IF i >= k THEN 1 ELSE 0),
            source |-> source,
            log_type |-> LogTypeOf(source, i, mix.web_from)]]

InitPipe ==
    /\ \E k \in 1..MaxRecords, kind \in {"spike", "step"}, mix \in SourceMixes :
       \E ntrain \in SplitSizes, nval \in SplitSizes, ntest \in SplitSizes :
          data = Some([train |-> Frame(ntrain, k, kind, mix),
                       val |-> Frame(nval, k, kind, mix),
                       test |-> Frame(ntest, k, kind, mix)])
    /\ extracted = None
    /\ IdleSeq
    /\ IdleTrain
    /\ IdleThr
    /\ IdleEng
    /\ IdleCall
    /\ IdleFit
    /\ IdleOther

ExtractFeatures ==
    /\ extracted = None
    /\ extracted' = Some(extract_features(Get(data)))
    /\ UNCHANGED <<data, notPipeVars>>

NextPipe == ExtractFeatures

SpecPipe == InitPipe /\ [][NextPipe]_vars

\* the call has returned its sequences and labels
HasExtracted == extracted # None /\ ~Get(extracted).raised

Extracted == Get(Get(extracted).value)

(***************************************************************************)
(* C1: in extract_features, for every split of N >= L records the label    *)
(* array has as many entries as there are sequences (N-L+1), and entry i   *)
(* (0-based) is the is_attack label of record i+L-1, the last record of    *)
(* window i.                                                               *)
(***************************************************************************)
LabelAlignment ==
    HasExtracted =>
        \A s \in SplitNames :
            LET df == Get(data)[s]
                N == Len(df)
                seqs == Extracted.sequences[s]
                y_seq == Extracted.labels[s]
            IN N >= SequenceLength =>
                /\ Len(seqs) = N - SequenceLength + 1
                /\ Len(y_seq) = Len(seqs)
                /\ \A i \in 1..Len(y_seq) :
                     /\ y_seq[i] = df[i + SequenceLength - 1].is_attack
                     /\ seqs[i][SequenceLength] = FeatureRow(df[i + SequenceLength - 1])

\* a split longer than the window whose only attack is the last record of
\* its first window has been extracted
LabelAlignmentWitness ==
    /\ HasExtracted
    /\ Len(Get(data)["val"]) = SequenceLength + 1
    /\ Get(data)["val"][SequenceLength].is_attack = 1
    /\ Get(data)["val"][1].is_attack = 0
    /\ Extracted.labels["val"] = <<1, 0>>

(***************************************************************************)
(* C10: for a split with 0 < N < L records, which yields one front-padded  *)
(* sequence, extract_features pairs that sequence with exactly one label,  *)
(* the label of the last record.                                           *)
(***************************************************************************)
ShortSplitLabelIsLast ==
    HasExtracted =>
        \A s \in SplitNames :
            LET df == Get(data)[s]
                N == Len(df)
                y_seq == Extracted.labels[s]
            IN (0 < N /\ N < SequenceLength) =>
                /\ Len(Extracted.sequences[s]) = 1
                /\ Len(y_seq) = 1
                /\ y_seq[1] = df[N].is_attack

\* a call on a split that lacks one of the three datasets has raised
SplitWithoutADatasetRaises ==
    /\ extracted # None
    /\ Get(extracted).raised
    /\ Len(Get(data)["val"]) = SequenceLength
    /\ ~(RiskFactorColumns \subseteq OneHotColumns(Get(data)["val"]))

\* a call whose splits hold the three datasets has raised: the validation
\* split lacks a log type of the training split
SplitWithoutALogTypeRaises ==
    /\ extracted # None
    /\ Get(extracted).raised
    /\ \A s \in SplitNames : RiskFactorColumns \subseteq OneHotColumns(Get(data)[s])
    /\ ~(OneHotColumns(Get(data)["train"]) \subseteq OneHotColumns(Get(data)["val"]))

(***************************************************************************)
(* SpecTrain: a CybersecurityLSTMTrainer over its life: train, save_model  *)
(* and load_model called one after the other, and a new trainer built      *)
(* while the checkpoint file stays.                                        *)
(*                                                                         *)
(* Tensors live in a storage, address -> weights.  The model's parameters  *)
(* are the tensor at ParamAddr for the whole life of the trainer: the      *)
(* optimizer updates them in place.  Weights are named by the number of    *)
(* epochs of optimizer steps that produced them (0 = as initialised), so   *)
(* the weights at the end of the epoch whose loss is val_losses[e] are e.  *)
(* The validation loss of an epoch is an input, drawn from 1..MaxLoss.     *)
(* train_pc is "idle" when no call of train has been made on the trainer   *)
(* as it is now, "loop" and "restore" inside train, "done" when train has  *)
(* returned and nothing was loaded since.                                  *)
(***************************************************************************)
ParamAddr == 1

Infinity == MaxLoss + 1      \* float('inf'): above every loss

\* train_epoch: every batch ends in optimizer.step(), which writes the
\* parameters in place
train_epoch(heap) == [heap EXCEPT ![ParamAddr] = @ + 1]

\* model.state_dict(): a dict of tensors that share the parameters' storage
state_dict == [weights |-> ParamAddr]

\* dict.copy(): a new dict holding the same tensors (no tensor is copied)
DictCopy(sd) == sd

\* model.load_state_dict(sd): param.copy_(sd tensor), element by element
load_state_dict(heap, sd) == [heap EXCEPT ![ParamAddr] = heap[sd.weights]]

\* `if val_loss < self.best_val_loss`
Improved(val_loss, best) == val_loss < best

\* variant of PatienceExhausted: one more epoch of grace
PatienceExceeded(counter, patience) == counter > patience

\* `if patience_counter >= early_stopping_patience: break`
PatienceExhausted(counter, patience) == counter >= patience

\* CybersecurityLSTMTrainer.save_model: torch.save writes the values the
\* tensors hold, the best loss and the loss history
trainer_save_model(heap, best, losses) ==
    [model_state_dict |-> [weights |-> heap[state_dict.weights]],
     best_val_loss |-> best,
     val_losses |-> losses]

\* model.load_state_dict(checkpoint['model_state_dict']): the values of the
\* file are copied into the parameters
load_checkpoint_state_dict(heap, model_state_dict) ==
    [heap EXCEPT ![ParamAddr] = model_state_dict.weights]

\* CybersecurityLSTMTrainer.__init__: no call yet, nothing saved
InitTrain ==
    /\ epochs = 0
    /\ early_stopping_patience = 0
    /\ train_pc = "idle"
    /\ epoch = 0
    /\ tensors = <<0>>
    /\ val_losses = <<>>
    /\ best_val_loss = Infinity
    /\ best_model_state = None
    /\ patience_counter = 0
    /\ checkpoint = None
    /\ IdleSeq
    /\ IdlePipe
    /\ IdleThr
    /\ IdleEng
    /\ IdleCall
    /\ IdleFit
    /\ IdleOther

\* train(train_loader, val_loader, epochs, early_stopping_patience) is
\* called: patience_counter = 0; the losses of a trainer's history are
\* capped at MaxEpochs
StartTrain(n, patience) ==
    /\ train_pc \in {"idle", "done"}
    /\ Len(val_losses) + n <= MaxEpochs
    /\ epochs' = n
    /\ early_stopping_patience' = patience
    /\ patience_counter' = 0
    /\ epoch' = 0
    /\ train_pc' = "loop"
    /\ UNCHANGED <<tensors, val_losses, best_val_loss, best_model_state, checkpoint,
                   notTrainVars>>

\* one pass of the body of `for epoch in range(epochs)`
TrainEpoch(val_loss) ==
    /\ train_pc = "loop"
    /\ epoch < epochs
    /\ LET improved == Improved(val_loss, best_val_loss)
           counter == IF improved THEN 0 ELSE patience_counter + 1
       IN /\ tensors' = train_epoch(tensors)
          /\ val_losses' = Append(val_losses, val_loss)
          /\ best_val_loss' = IF improved THEN val_loss ELSE best_val_loss
          /\ best_model_state' = IF improved THEN Some(DictCopy(state_dict))
                                 ELSE best_model_state
          /\ patience_counter' = counter
          /\ epoch' = epoch + 1
          /\ train_pc' = IF PatienceExhausted(counter, early_stopping_patience)
                            \/ epoch + 1 = epochs
                         THEN "restore" ELSE "loop"
    /\ UNCHANGED <<epochs, early_stopping_patience, checkpoint, notTrainVars>>

\* after the loop: "Load best model"
LoadBestModel ==
    /\ train_pc = "restore"
    /\ tensors' = IF best_model_state # None
                  THEN load_state_dict(tensors, Get(best_model_state))
                  ELSE tensors
    /\ train_pc' = "done"
    /\ UNCHANGED <<epochs, early_stopping_patience, epoch, val_losses,
                   best_val_loss, best_model_state, patience_counter, checkpoint,
                   notTrainVars>>

\* trainer.save_model(filepath), between calls of train; the histories
\* saved are capped at MaxSaved losses
TrainerSaveModel ==
    /\ train_pc \in {"idle", "done"}
    /\ Len(val_losses) <= MaxSaved
    /\ checkpoint' = Some(trainer_save_model(tensors, best_val_loss, val_losses))
    /\ UNCHANGED <<epochs, early_stopping_patience, train_pc, epoch, tensors,
                   val_losses, best_val_loss, best_model_state, patience_counter,
                   notTrainVars>>

\* trainer.load_model(filepath): parameters, best loss and loss history are
\* those of the file; best_model_state is left as it is
TrainerLoadModel ==
    /\ train_pc \in {"idle", "done"}
    /\ checkpoint # None
    /\ tensors' = load_checkpoint_state_dict(tensors, Get(checkpoint).model_state_dict)
    /\ best_val_loss' = Get(checkpoint).best_val_loss
    /\ val_losses' = Get(checkpoint).val_losses
    /\ train_pc' = "idle"
    /\ UNCHANGED <<epochs, early_stopping_patience, epoch, best_model_state,
                   patience_counter, checkpoint, notTrainVars>>

\* another CybersecurityLSTMTrainer is built, on a new model; the file stays
NewTrainer ==
    /\ train_pc \in {"idle", "done"}
    /\ tensors' = <<0>>
    /\ val_losses' = <<>>
    /\ best_val_loss' = Infinity
    /\ best_model_state' = None
    /\ train_pc' = "idle"
    /\ UNCHANGED <<epochs, early_stopping_patience, epoch, patience_counter,
                   checkpoint, notTrainVars>>

\* the statements of a call of train, which runs to its end once called
RunTrain ==
    \/ \E val_loss \in 1..MaxLoss : TrainEpoch(val_loss)
    \/ LoadBestModel

NextTrain ==
    \/ \E n \in 1..MaxEpochs, patience \in 1..MaxPatience : StartTrain(n, patience)
    \/ RunTrain
    \/ TrainerSaveModel
    \/ TrainerLoadModel
    \/ NewTrainer

SpecTrain == InitTrain /\ [][NextTrain]_vars

\* the number of losses the trainer's history held when train was called
HistoryBefore == Len(val_losses) - epoch

\* the lowest of the first k validation losses of the history (float('inf')
\* when k = 0): the best validation loss so far
RECURSIVE RunningBest(_, _)
RunningBest(losses, k) ==
    IF k = 0 THEN Infinity
    ELSE LET b == RunningBest(losses, k - 1)
         IN IF losses[k] < b THEN losses[k] ELSE b

\* the loss at position k failed to go strictly below the best loss before it
FailedToImprove(losses, k) == losses[k] >= RunningBest(losses, k - 1)

\* the position of the lowest of the first n losses, the first one on ties
RECURSIVE FirstArgMin(_, _)
FirstArgMin(losses, n) ==
    IF n = 1 THEN 1
    ELSE LET b == FirstArgMin(losses, n - 1)
         IN IF losses[n] < losses[b] THEN n ELSE b

\* an epoch of the call that has returned improved the validation loss
SomeEpochImproved ==
    \E k \in 1..epoch : ~FailedToImprove(val_losses, HistoryBefore + k)

(***************************************************************************)
(* C2: when train returns after at least one epoch improved the validation *)
(* loss, the model's weights are those it had at the end of the epoch that *)
(* attained the best validation loss, also when later epochs ran.          *)
(***************************************************************************)
BestWeightsRestored ==
    (train_pc = "done" /\ SomeEpochImproved) =>
        tensors[ParamAddr] = FirstArgMin(val_losses, Len(val_losses))

\* a call of train runs its loop and its restore step to the end: train is
\* a plain sequential function
SpecTrainFair == SpecTrain /\ WF_vars(RunTrain)

\* epoch n of the call is the last of p consecutive epochs of the call that
\* failed to improve
Stalled(losses, before, n, p) ==
    /\ n >= p
    /\ \A k \in (n - p + 1)..n : FailedToImprove(losses, before + k)

\* the loop has left: at the first stalled epoch, or after `epochs` epochs
StoppedWhereItShould ==
    /\ \A n \in 1..(epoch - 1) :
          ~Stalled(val_losses, HistoryBefore, n, early_stopping_patience)
    /\ \/ Stalled(val_losses, HistoryBefore, epoch, early_stopping_patience)
       \/ epoch = epochs

StopRule ==
    /\ train_pc \in {"loop", "restore", "done"} =>
          /\ epoch <= Len(val_losses)
          /\ epoch <= epochs
          /\ best_val_loss = RunningBest(val_losses, Len(val_losses))
    /\ train_pc = "loop" =>
          /\ epoch < epochs
          /\ \A n \in 1..epoch :
                ~Stalled(val_losses, HistoryBefore, n, early_stopping_patience)
    /\ train_pc \in {"restore", "done"} => StoppedWhereItShould

(***************************************************************************)
(* C11: for every sequence of validation losses and every patience p >= 1, *)
(* train leaves the loop right after the first epoch that is the p-th in a *)
(* row to fail to go strictly below the best validation loss so far (the   *)
(* count restarts at every strict improvement), and otherwise after        *)
(* exactly `epochs` epochs; it never runs more than `epochs` epochs, and   *)
(* it always terminates.                                                   *)
(***************************************************************************)
EarlyStopping == [](StopRule) /\ ((train_pc = "loop") ~> (train_pc = "done"))

\* train returned before `epochs` epochs, p epochs after an improvement that
\* was not the first epoch
EarlyStoppingWitness ==
    /\ train_pc = "done"
    /\ epoch < epochs
    /\ epoch > early_stopping_patience + 1
    /\ Stalled(val_losses, HistoryBefore, epoch, early_stopping_patience)
    /\ ~FailedToImprove(val_losses, HistoryBefore + epoch - early_stopping_patience)

\* train returned on a trainer that had loaded a checkpoint: the epochs of
\* the call were measured against the best loss of the file
TrainAfterLoadModel ==
    /\ train_pc = "done"
    /\ HistoryBefore > 0
    /\ best_model_state = None
    /\ epoch = early_stopping_patience
    /\ epoch < epochs

(***************************************************************************)
(* SpecThr: CybersecurityTrainingPipeline.find_optimal_threshold, from the *)
(* array of reconstruction errors on.  Errors are integers; a threshold is *)
(* kept as 100 times its value, which makes every linearly interpolated    *)
(* percentile an integer, and an F1 score is kept as the fraction          *)
(* num/den.                                                                *)
(***************************************************************************)
RECURSIVE Insert(_, _)
Insert(sorted, v) ==
    IF sorted = <<>> THEN <<v>>
    ELSE IF v <= Head(sorted) THEN <<v>> \o sorted
    ELSE <<Head(sorted)>> \o Insert(Tail(sorted), v)

RECURSIVE Sorted(_)
Sorted(a) == IF a = <<>> THEN <<>> ELSE Insert(Sorted(Tail(a)), Head(a))

\* 100 * np.percentile(a, q), method 'linear', for a sorted: the virtual index
\* is q/100 * (n-1), interpolated between its two neighbours
Percentile100(sorted, q) ==
    LET pos == q * (Len(sorted) - 1)
        lo == pos \div 100
        frac == pos % 100
    IN IF frac = 0 THEN 100 * sorted[lo + 1]
       ELSE 100 * sorted[lo + 1] + frac * (sorted[lo + 2] - sorted[lo + 1])

\* thresholds = np.percentile(reconstruction_errors, np.arange(50, 99, 1))
Thresholds(errors) ==
    LET sorted == Sorted(errors)
        n == PercentileStop - PercentileFrom
        at[k \in 1..n] == Percentile100(sorted, PercentileFrom + k - 1)
    IN [k \in 1..n |-> at[k]]

\* (reconstruction_errors > threshold).astype(int)
Predictions(errors, threshold100) ==
    [i \in 1..Len(errors) |-> IF 100 * errors[i] > threshold100 THEN 1 ELSE 0]

\* sklearn f1_score(y_true, y_pred) for binary labels: 2tp / (2tp + fp + fn),
\* and 0.0 when that is 0/0
f1_score(y_true, y_pred) ==
    LET idx == 1..Len(y_true)
        tp == Cardinality({i \in idx : y_true[i] = 1 /\ y_pred[i] = 1})
        fp == Cardinality({i \in idx : y_true[i] = 0 /\ y_pred[i] = 1})
        fn == Cardinality({i \in idx : y_true[i] = 1 /\ y_pred[i] = 0})
    IN IF 2 * tp + fp + fn = 0 THEN [num |-> 0, den |-> 1]
       ELSE [num |-> 2 * tp, den |-> 2 * tp + fp + fn]

\* f > g for two fractions with positive denominators
Greater(f, g) == f.num * g.den > g.num * f.den

ZeroF1 == [num |-> 0, den |-> 1]

\* the scan `for threshold in thresholds`, from candidate k on
RECURSIVE Scan(_, _, _, _, _, _)
Scan(thresholds, errors, y, k, best_f1, best_threshold) ==
    IF k > Len(thresholds) THEN [best_f1 |-> best_f1, best_threshold |-> best_threshold]
    ELSE LET f1 == f1_score(y, Predictions(errors, thresholds[k]))
         IN IF Greater(f1, best_f1)
            THEN Scan(thresholds, errors, y, k + 1, f1, Some(thresholds[k]))
            ELSE Scan(thresholds, errors, y, k + 1, best_f1, best_threshold)

\* best_threshold = None, best_f1 = 0, the scan, and then the log line
\* f"{best_threshold:.6f}", which raises TypeError on None
find_optimal_threshold(errors, y) ==
    LET best == Scan(Thresholds(errors), errors, y, 1, ZeroF1, None)
    IN IF best.best_threshold = None
       THEN [raised |-> TRUE, value |-> None]
       ELSE [raised |-> FALSE, value |-> best.best_threshold]

InitThr ==
    /\ \E n \in 1..MaxValidation :
          /\ reconstruction_errors \in [1..n -> 0..MaxError]
          /\ y_val \in [1..n -> {0, 1}]
    /\ selected = None
    /\ IdleSeq
    /\ IdlePipe
    /\ IdleTrain
    /\ IdleEng
    /\ IdleCall
    /\ IdleFit
    /\ IdleOther

FindOptimalThreshold ==
    /\ selected = None
    /\ selected' = Some(find_optimal_threshold(reconstruction_errors, y_val))
    /\ UNCHANGED <<reconstruction_errors, y_val, notThrVars>>

NextThr == FindOptimalThreshold

SpecThr == InitThr /\ [][NextThr]_vars

\* F1 of one candidate threshold against the validation labels
F1At(threshold100) == f1_score(y_val, Predictions(reconstruction_errors, threshold100))

CandidateSet == {Thresholds(reconstruction_errors)[k] :
                    k \in 1..(PercentileStop - PercentileFrom)}

(***************************************************************************)
(* C3: for every validation set, find_optimal_threshold returns a          *)
(* candidate threshold whose F1 is the maximum F1 over all candidates, and *)
(* the lowest candidate among those that reach the maximum.                *)
(***************************************************************************)
ReturnsLowestBestCandidate ==
    selected # None =>
        /\ ~Get(selected).raised
        /\ Get(selected).value # None
        /\ LET t == Get(Get(selected).value)
           IN /\ t \in CandidateSet
              /\ \A c \in CandidateSet : ~Greater(F1At(c), F1At(t))
              /\ \A c \in CandidateSet : c < t => Greater(F1At(t), F1At(c))

\* the validation sequences of one class
AttackSequences == {i \in DOMAIN y_val : y_val[i] = 1}
NormalSequences == {i \in DOMAIN y_val : y_val[i] = 0}

\* both classes occur and every attack has a strictly larger error than
\* every normal sequence
PerfectlySeparated ==
    /\ AttackSequences # {}
    /\ NormalSequences # {}
    /\ \A a \in AttackSequences : \A n \in NormalSequences :
           reconstruction_errors[a] > reconstruction_errors[n]

(***************************************************************************)
(* C12: for every validation set in which both classes occur and every     *)
(* attack sequence has a strictly larger reconstruction error than every   *)
(* normal sequence, find_optimal_threshold returns a threshold t with      *)
(* (max normal error) <= t < (min attack error), and predicting            *)
(* error > t gives F1 = 1.0.                                               *)
(***************************************************************************)
SeparatingThreshold ==
    (selected # None /\ PerfectlySeparated) =>
        /\ ~Get(selected).raised
        /\ LET t == Get(Get(selected).value)
               f1 == F1At(t)
           IN /\ \A n \in NormalSequences : 100 * reconstruction_errors[n] <= t
              /\ \A a \in AttackSequences : t < 100 * reconstruction_errors[a]
              /\ f1.num = f1.den
              /\ f1.den > 0

(***************************************************************************)
(* SpecCompare: the four places that turn a reconstruction error and a     *)
(* threshold into a verdict, each applied to the same errors and the same  *)
(* threshold (kept as 100 times its value, as in SpecThr).                 *)
(***************************************************************************)
\* variant of is_threat: an error equal to the threshold is a threat
is_threat_or_equal(reconstruction_error, threshold100) ==
    100 * reconstruction_error >= threshold100

\* analyze_single_log: reconstruction_error.item() > self.optimal_threshold
is_threat(reconstruction_error, threshold100) ==
    100 * reconstruction_error > threshold100

\* LSTMAutoencoder.predict_anomaly: (reconstruction_error > threshold).long()
predict_anomaly(errors, threshold100) ==
    [i \in 1..Len(errors) |-> IF 100 * errors[i] > threshold100 THEN 1 ELSE 0]

\* evaluate_model: (reconstruction_errors > self.optimal_threshold).astype(int)
evaluate_predictions(errors, threshold100) ==
    [i \in 1..Len(errors) |-> IF 100 * errors[i] > threshold100 THEN 1 ELSE 0]

\* thresholds tried: every error value and the midpoints between them
ThresholdValues == {50 * k : k \in 0..(2 * MaxError)}

InitCompare ==
    /\ \E n \in 1..MaxValidation :
          \E errors \in [1..n -> 0..MaxError], threshold100 \in ThresholdValues :
             inputs = Some([errors |-> errors, threshold100 |-> threshold100])
    /\ outputs = None
    /\ IdleSeq
    /\ IdlePipe
    /\ IdleTrain
    /\ IdleThr
    /\ IdleEng
    /\ IdleFit
    /\ IdleOther

Returned(op, value) ==
    /\ outputs = None
    /\ outputs' = Some([op |-> op, value |-> value])
    /\ UNCHANGED <<inputs, notCallVars>>

PredictAnomaly ==
    Returned("predict_anomaly",
             predict_anomaly(Get(inputs).errors, Get(inputs).threshold100))

CandidatePredictions ==
    Returned("find_optimal_threshold",
             Predictions(Get(inputs).errors, Get(inputs).threshold100))

EvaluatePredictions ==
    Returned("evaluate_model",
             evaluate_predictions(Get(inputs).errors, Get(inputs).threshold100))

\* the engine scores one sequence: the last of the errors
IsThreat ==
    Returned("analyze_single_log",
             is_threat(Get(inputs).errors[Len(Get(inputs).errors)],
                       Get(inputs).threshold100))

NextCompare ==
    \/ PredictAnomaly
    \/ CandidatePredictions
    \/ EvaluatePredictions
    \/ IsThreat

SpecCompare == InitCompare /\ [][NextCompare]_vars

\* the verdict a place gave for the i-th error, as a boolean
Anomalous(i) ==
    IF Get(outputs).op = "analyze_single_log"
    THEN Get(outputs).value
    ELSE Get(outputs).value[i] = 1

\* the errors a place gave a verdict for
Judged ==
    IF Get(outputs).op = "analyze_single_log"
    THEN {Len(Get(inputs).errors)}
    ELSE 1..Len(Get(inputs).errors)

(***************************************************************************)
(* C13: a sequence is classified anomalous exactly when its mean           *)
(* reconstruction error is strictly greater than the threshold, with the   *)
(* same strict comparison in predict_anomaly, in the candidate scan of     *)
(* find_optimal_threshold, in evaluate_model and in is_threat of           *)
(* analyze_single_log: an error equal to the threshold is never a threat.  *)
(***************************************************************************)
StrictComparison ==
    outputs # None =>
        \A i \in Judged :
            Anomalous(i) <=> 100 * Get(inputs).errors[i] > Get(inputs).threshold100

\* the engine judged an error equal to the threshold, and found no threat
StrictComparisonWitness ==
    /\ outputs # None
    /\ Get(outputs).op = "analyze_single_log"
    /\ 100 * Get(inputs).errors[Len(Get(inputs).errors)] = Get(inputs).threshold100
    /\ Get(outputs).value = FALSE
    /\ Get(inputs).threshold100 > 0

(***************************************************************************)
(* SpecClassify: the mappings from a score in [0, 1] to a threat level.    *)
(* A score is kept as 100 times its value, so the scores are 0..100 and    *)
(* the band limits 0.3, 0.5, 0.7, 0.9 are 30, 50, 70, 90.  Each mapping is *)
(* applied to two scores, to compare their levels.                         *)
(***************************************************************************)
Scores == 0..100

\* variant of _classify_threat_level: the band limits belong to the band below
_classify_threat_level_open(score) ==
    IF score > 90 THEN "critical"
    ELSE IF score > 70 THEN "high"
    ELSE IF score > 50 THEN "medium"
    ELSE IF score > 30 THEN "low"
    ELSE "normal"

\* ThreatDetectionEngine._classify_threat_level
_classify_threat_level(score) ==
    IF score >= 90 THEN "critical"
    ELSE IF score >= 70 THEN "high"
    ELSE IF score >= 50 THEN "medium"
    ELSE IF score >= 30 THEN "low"
    ELSE "normal"

\* MockThreatDetectionEngine._classify_threat_level (api/simple_demo.py)
Mock_classify_threat_level(score) ==
    IF score >= 90 THEN "critical"
    ELSE IF score >= 70 THEN "high"
    ELSE IF score >= 50 THEN "medium"
    ELSE IF score >= 30 THEN "low"
    ELSE "normal"

\* AIThreatDetector._classify_threat, from the clamped threat_score on
_classify_threat(threat_score) ==
    IF threat_score >= 80 THEN "critical"
    ELSE IF threat_score >= 60 THEN "high"
    ELSE IF threat_score >= 40 THEN "medium"
    ELSE IF threat_score >= 20 THEN "low"
    ELSE "normal"

\* detect_threats (realtime_server.py), from the normalized threat_score on
detect_threats(threat_score) ==
    IF threat_score >= 70 THEN "high"
    ELSE IF threat_score >= 40 THEN "medium"
    ELSE IF threat_score >= 10 THEN "low"
    ELSE "none"

InitClassify ==
    /\ \E score \in Scores, other \in Scores :
          inputs = Some([score |-> score, other |-> other])
    /\ outputs = None
    /\ IdleSeq
    /\ IdlePipe
    /\ IdleTrain
    /\ IdleThr
    /\ IdleEng
    /\ IdleFit
    /\ IdleOther

ClassifyThreatLevel ==
    Returned("_classify_threat_level",
             [level |-> _classify_threat_level(Get(inputs).score),
              other |-> _classify_threat_level(Get(inputs).other)])

MockClassifyThreatLevel ==
    Returned("Mock_classify_threat_level",
             [level |-> Mock_classify_threat_level(Get(inputs).score),
              other |-> Mock_classify_threat_level(Get(inputs).other)])

ClassifyThreat ==
    Returned("_classify_threat",
             [level |-> _classify_threat(Get(inputs).score),
              other |-> _classify_threat(Get(inputs).other)])

DetectThreats ==
    Returned("detect_threats",
             [level |-> detect_threats(Get(inputs).score),
              other |-> detect_threats(Get(inputs).other)])

NextClassify ==
    \/ ClassifyThreatLevel
    \/ MockClassifyThreatLevel
    \/ ClassifyThreat
    \/ DetectThreats

SpecClassify == InitClassify /\ [][NextClassify]_vars

\* the five-level taxonomy, in ascending order
Levels == <<"normal", "low", "medium", "high", "critical">>

Rank(level) == CHOOSE k \in 1..Len(Levels) : Levels[k] = level

\* the bands of the engine: lowest score of each level
BandFloor == <<0, 30, 50, 70, 90>>

\* the level whose band holds the score
Band(score) ==
    Levels[CHOOSE k \in 1..Len(Levels) :
              /\ BandFloor[k] <= score
              /\ k < Len(Levels) => score < BandFloor[k + 1]]

(***************************************************************************)
(* C16: _classify_threat_level is a total, monotone mapping of a score in  *)
(* [0, 1] to the five levels: below 0.3 normal, [0.3, 0.5) low,            *)
(* [0.5, 0.7) medium, [0.7, 0.9) high, 0.9 and above critical.             *)
(***************************************************************************)
BandMapping ==
    (outputs # None /\ Get(outputs).op = "_classify_threat_level") =>
        LET in == Get(inputs)
            out == Get(outputs).value
        IN /\ out.level \in {Levels[k] : k \in 1..Len(Levels)}
           /\ out.level = Band(in.score)
           /\ in.score <= in.other => Rank(out.level) <= Rank(out.other)

\* a score on a band limit and a score just below it were classified
BandMappingWitness ==
    /\ outputs # None
    /\ Get(outputs).op = "_classify_threat_level"
    /\ Get(inputs).score = 90
    /\ Get(inputs).other = 89
    /\ Get(outputs).value = [level |-> "critical", other |-> "high"]

(***************************************************************************)
(* C17: for every score in [0, 1], every scorer of the repository (the     *)
(* engine, AIThreatDetector._classify_threat, detect_threats of the        *)
(* realtime server, the mock engine of api/simple_demo.py) assigns the     *)
(* same level, from the same five-level taxonomy, as the engine's bands.   *)
(***************************************************************************)
OneTaxonomy ==
    outputs # None =>
        /\ Get(outputs).value.level \in {Levels[k] : k \in 1..Len(Levels)}
        /\ Get(outputs).value.level = _classify_threat_level(Get(inputs).score)

(***************************************************************************)
(* The inference engine.  A training run is named by its number, which     *)
(* orders runs as their timestamps (and the creation times of their files) *)
(* do; save_results writes three artifacts per run.  The disk is           *)
(* [models, features, results, partial]: the runs whose checkpoint,        *)
(* feature config and results file exist, and the files <<kind, run>> that *)
(* have been opened for writing and are not written to their end yet.      *)
(* What an artifact holds is named by the run that wrote it: the engine's  *)
(* model is [run, weights, training] (weights "initial" as constructed,   *)
(* "partial" while load_state_dict copies tensor after tensor, "restored"  *)
(* after it), its feature extractor the run each of its six attributes was *)
(* read from (0: the value the constructor gave it) and its threshold the  *)
(* run whose results file it was read from.                                *)
(***************************************************************************)
Runs == 1..MaxRuns

\* CybersecurityFeatureExtractor(): every attribute as the constructor sets it
FreshExtractor ==
    [scaler |-> 0, feature_selector |-> 0, feature_names |-> 0,
     sequence_length |-> 0, selected_features |-> 0, is_fitted |-> 0]

\* an extractor after load_feature_config of the file of a run
ExtractorOf(run) ==
    [scaler |-> run, feature_selector |-> run, feature_names |-> run,
     sequence_length |-> run, selected_features |-> run, is_fitted |-> run]

Max(S) == CHOOSE x \in S : \A y \in S : y <= x

\* the run a new save_results call writes: later than every file on disk
NextRun(d) ==
    LET all == d.models \cup d.features \cup d.results
    IN IF all = {} THEN 1 ELSE Max(all) + 1

\* one statement of save_results in the training process sv, on the disk d:
\* the three files of a run are written one after the other, under their
\* final names, and each is opened before it is written
save_results(d, sv) ==
    CASE sv.pc = "idle" ->
            \* timestamp = datetime.now(); self.trainer.save_model(model_path):
            \* torch.save opens the file
            [d |-> [d EXCEPT !.models = @ \cup {NextRun(d)},
                             !.partial = @ \cup {<<"models", NextRun(d)>>}],
             sv |-> [pc |-> "torch_save", run |-> NextRun(d)]]
      [] sv.pc = "torch_save" ->
            \* torch.save writes the checkpoint and closes the file
            [d |-> [d EXCEPT !.partial = @ \ {<<"models", sv.run>>}],
             sv |-> [sv EXCEPT !.pc = "save_feature_config"]]
      [] sv.pc = "save_feature_config" ->
            \* save_feature_config: with open(filepath, 'wb') as f:
            [d |-> [d EXCEPT !.features = @ \cup {sv.run},
                             !.partial = @ \cup {<<"features", sv.run>>}],
             sv |-> [sv EXCEPT !.pc = "pickle_dump"]]
      [] sv.pc = "pickle_dump" ->
            \* pickle.dump(config, f)
            [d |-> [d EXCEPT !.partial = @ \ {<<"features", sv.run>>}],
             sv |-> [sv EXCEPT !.pc = "open"]]
      [] sv.pc = "open" ->
            \* with open(results_path, 'w') as f:
            [d |-> [d EXCEPT !.results = @ \cup {sv.run},
                             !.partial = @ \cup {<<"results", sv.run>>}],
             sv |-> [sv EXCEPT !.pc = "dump"]]
      [] sv.pc = "dump" ->
            \* json.dump(json_results, f, indent=2, default=str); the call returns
            [d |-> [d EXCEPT !.partial = @ \ {<<"results", sv.run>>}],
             sv |-> [pc |-> "idle", run |-> 0]]

\* a file that can be read to its end
Readable(d, kind, run) == run \in d[kind] /\ <<kind, run>> \notin d.partial

\* one statement of auto_load_latest_model / load_model in the thread l, on
\* the engine e and the disk d; pc "raised" is the except branch re-raising
LoadStep(e, l, d) ==
    CASE l.pc = "glob_models" ->
            \* model_files = list(models_dir.glob("cybersecurity_lstm_autoencoder_*.pth"))
            [e |-> e, l |-> [l EXCEPT !.pc = "glob_features", !.model_files = d.models]]
      [] l.pc = "glob_features" ->
            \* feature_files = list(models_dir.glob("feature_extractor_config_*.pkl"))
            [e |-> e, l |-> [l EXCEPT !.pc = "check", !.feature_files = d.features]]
      [] l.pc = "check" ->
            \* if not model_files or not feature_files: raise FileNotFoundError
            IF l.model_files = {} \/ l.feature_files = {}
            THEN [e |-> e, l |-> [l EXCEPT !.pc = "raised"]]
            ELSE [e |-> e, l |-> [l EXCEPT !.pc = "max_model"]]
      [] l.pc = "max_model" ->
            \* latest_model = max(model_files, key=os.path.getctime)
            [e |-> e, l |-> [l EXCEPT !.pc = "max_features",
                                      !.model_path = Max(l.model_files)]]
      [] l.pc = "max_features" ->
            \* latest_features = max(feature_files, key=os.path.getctime);
            \* self.load_model(str(latest_model), str(latest_features))
            [e |-> e, l |-> [l EXCEPT !.pc = "torch_load",
                                      !.feature_config_path = Max(l.feature_files)]]
      [] l.pc = "torch_load" ->
            \* checkpoint = torch.load(model_path)
            IF Readable(d, "models", l.model_path)
            THEN [e |-> e, l |-> [l EXCEPT !.pc = "construct"]]
            ELSE [e |-> e, l |-> [l EXCEPT !.pc = "raised"]]
      [] l.pc = "construct" ->
            \* self.model = LSTMAutoencoder(**model_config)
            [e |-> [e EXCEPT !.model = Some([run |-> l.model_path,
                                             weights |-> "initial",
                                             training |-> TRUE])],
             l |-> [l EXCEPT !.pc = "load_state_dict"]]
      [] l.pc = "load_state_dict" ->
            \* self.model.load_state_dict(checkpoint['model_state_dict']): the
            \* tensors are copied one after the other
            [e |-> [e EXCEPT !.model = Some([Get(e.model) EXCEPT !.weights = "partial"])],
             l |-> [l EXCEPT !.pc = "state_dict_loaded"]]
      [] l.pc = "state_dict_loaded" ->
            \* the last tensor is copied and load_state_dict returns
            [e |-> [e EXCEPT !.model = Some([Get(e.model) EXCEPT !.weights = "restored"])],
             l |-> [l EXCEPT !.pc = "eval"]]
      [] l.pc = "eval" ->
            \* self.model.eval()
            [e |-> [e EXCEPT !.model = Some([Get(e.model) EXCEPT !.training = FALSE])],
             l |-> [l EXCEPT !.pc = "new_extractor"]]
      [] l.pc = "new_extractor" ->
            \* self.feature_extractor = CybersecurityFeatureExtractor()
            [e |-> [e EXCEPT !.feature_extractor = Some(FreshExtractor)],
             l |-> [l EXCEPT !.pc = "load_feature_config"]]
      [] l.pc = "load_feature_config" ->
            \* self.feature_extractor.load_feature_config(feature_config_path):
            \* with open(filepath, 'rb') as f: config = pickle.load(f)
            IF Readable(d, "features", l.feature_config_path)
            THEN [e |-> e, l |-> [l EXCEPT !.pc = "scaler"]]
            ELSE [e |-> e, l |-> [l EXCEPT !.pc = "raised"]]
      [] l.pc = "scaler" ->
            \* self.scaler = config['scaler']
            [e |-> [e EXCEPT !.feature_extractor =
                        Some([Get(@) EXCEPT !.scaler = l.feature_config_path])],
             l |-> [l EXCEPT !.pc = "feature_selector"]]
      [] l.pc = "feature_selector" ->
            \* self.feature_selector = config['feature_selector']
            [e |-> [e EXCEPT !.feature_extractor =
                        Some([Get(@) EXCEPT !.feature_selector = l.feature_config_path])],
             l |-> [l EXCEPT !.pc = "feature_names"]]
      [] l.pc = "feature_names" ->
            \* self.feature_names = config['feature_names']
            [e |-> [e EXCEPT !.feature_extractor =
                        Some([Get(@) EXCEPT !.feature_names = l.feature_config_path])],
             l |-> [l EXCEPT !.pc = "sequence_length"]]
      [] l.pc = "sequence_length" ->
            \* self.sequence_length = config['sequence_length']
            [e |-> [e EXCEPT !.feature_extractor =
                        Some([Get(@) EXCEPT !.sequence_length = l.feature_config_path])],
             l |-> [l EXCEPT !.pc = "selected_features"]]
      [] l.pc = "selected_features" ->
            \* self.selected_features = config['selected_features']
            [e |-> [e EXCEPT !.feature_extractor =
                        Some([Get(@) EXCEPT !.selected_features = l.feature_config_path])],
             l |-> [l EXCEPT !.pc = "is_fitted"]]
      [] l.pc = "is_fitted" ->
            \* self.is_fitted = config['is_fitted']; load_feature_config returns
            [e |-> [e EXCEPT !.feature_extractor =
                        Some([Get(@) EXCEPT !.is_fitted = l.feature_config_path])],
             l |-> [l EXCEPT !.pc = "results"]]
      [] l.pc = "results" ->
            \* latest_results = max(results_dir.glob("training_results_*.json")):
            \* the results file with the greatest name, whichever model is
            \* being loaded (ValueError of max() without files)
            IF d.results = {}
            THEN [e |-> e, l |-> [l EXCEPT !.pc = "raised"]]
            ELSE [e |-> e, l |-> [l EXCEPT !.pc = "json_load",
                                           !.latest_results = Max(d.results)]]
      [] l.pc = "json_load" ->
            \* with open(latest_results, 'r') as f: training_results = json.load(f)
            \* (JSONDecodeError of a file that is not written yet)
            IF Readable(d, "results", l.latest_results)
            THEN [e |-> e, l |-> [l EXCEPT !.pc = "optimal_threshold",
                                           !.training_results = l.latest_results]]
            ELSE [e |-> e, l |-> [l EXCEPT !.pc = "raised"]]
      [] l.pc = "optimal_threshold" ->
            \* self.optimal_threshold = training_results['evaluation']['optimal_threshold']
            [e |-> [e EXCEPT !.optimal_threshold = Some(l.training_results)],
             l |-> [l EXCEPT !.pc = "is_loaded"]]
      [] l.pc = "is_loaded" ->
            \* self.is_loaded = True
            [e |-> [e EXCEPT !.is_loaded = TRUE], l |-> [l EXCEPT !.pc = "done"]]

\* a thread entering load_model with two paths, on the disk d
LoadModelCall(model_path, feature_config_path, d) ==
    [NoCall EXCEPT !.pc = "torch_load", !.call = "load_model",
                   !.model_path = model_path,
                   !.feature_config_path = feature_config_path,
                   !.started_on = {d}]

\* a thread entering auto_load_latest_model, on the disk d
AutoLoadCall(d) ==
    [NoCall EXCEPT !.pc = "glob_models", !.call = "auto_load_latest_model",
                   !.started_on = {d}]

\* a whole call, run to its end on a disk that nothing writes meanwhile
RECURSIVE RunLoad(_, _, _)
RunLoad(e, l, d) ==
    IF l.pc \in {"done", "raised"} THEN [e |-> e, l |-> l]
    ELSE LET n == LoadStep(e, l, d) IN RunLoad(n.e, n.l, d)

load_model(e, model_path, feature_config_path, d) ==
    RunLoad(e, LoadModelCall(model_path, feature_config_path, d), d)

auto_load_latest_model(e, d) == RunLoad(e, AutoLoadCall(d), d)

\* what the engine would score with
Triple(e) ==
    [model |-> e.model, features |-> e.feature_extractor,
     threshold |-> e.optimal_threshold]

(***************************************************************************)
(* SpecLoad: one engine used by one thread, next to the training process.  *)
(* Any subset of the artifacts of runs 1..MaxRuns may be on disk; the      *)
(* thread calls load_model with the paths of any run and                   *)
(* auto_load_latest_model, one call after the other and each one statement *)
(* at a time, while the training pipeline saves a new run.                 *)
(***************************************************************************)
InitLoad ==
    /\ disk \in [models : SUBSET Runs, features : SUBSET Runs, results : SUBSET Runs,
                 partial : {{}}]
    /\ saving = NotSaving
    /\ engine = NewEngine
    /\ last_load = None
    /\ good_loads = {}
    /\ reload = NoCall
    /\ analyze = NotAnalyzing
    /\ observed = None
    /\ IdleSeq
    /\ IdlePipe
    /\ IdleTrain
    /\ IdleThr
    /\ IdleCall
    /\ IdleFit
    /\ IdleOther

\* every run on disk is complete: all three artifacts, written, or none
CompleteRuns ==
    /\ disk.models = disk.features
    /\ disk.features = disk.results
    /\ disk.partial = {}

\* a load call ends: last_load keeps the call, how it ended, and whether
\* it ran on a disk of complete runs that nothing wrote to during the call
Finished(r) ==
    /\ engine' = r.e
    /\ last_load' = Some([call |-> r.l.call,
                          model_path |-> r.l.model_path,
                          feature_config_path |-> r.l.feature_config_path,
                          raised |-> r.l.pc = "raised",
                          complete |-> CompleteRuns /\ r.l.started_on = {disk}])
    /\ good_loads' = IF r.l.pc = "raised" THEN good_loads
                     ELSE good_loads \cup {Triple(r.e)}

\* the thread calls load_model(model_path, feature_config_path)
LoadModel(model_path, feature_config_path) ==
    /\ reload.pc = "idle"
    /\ reload' = LoadModelCall(model_path, feature_config_path, disk)
    /\ UNCHANGED <<disk, saving, engine, last_load, good_loads, analyze, observed, notEngVars>>

\* the thread calls auto_load_latest_model()
AutoLoadLatestModel ==
    /\ reload.pc = "idle"
    /\ reload' = AutoLoadCall(disk)
    /\ UNCHANGED <<disk, saving, engine, last_load, good_loads, analyze, observed, notEngVars>>

\* the next statement of the load call in progress; the call returns or raises
ReloadStep ==
    /\ reload.pc # "idle"
    /\ LET n == LoadStep(engine, reload, disk)
       IN IF n.l.pc \in {"done", "raised"}
          THEN /\ Finished(n)
               /\ reload' = NoCall
          ELSE /\ engine' = n.e
               /\ reload' = n.l
               /\ UNCHANGED <<last_load, good_loads>>
    /\ UNCHANGED <<disk, saving, analyze, observed, notEngVars>>

\* the next statement of save_results in the training process
SaveResultsStep ==
    /\ saving.pc = "idle" => NextRun(disk) <= MaxRuns
    /\ LET n == save_results(disk, saving)
       IN /\ disk' = n.d
          /\ saving' = n.sv
    /\ UNCHANGED <<engine, last_load, good_loads, reload, analyze, observed, notEngVars>>

NextLoad ==
    \/ \E m \in Runs, f \in Runs : LoadModel(m, f)
    \/ AutoLoadLatestModel
    \/ ReloadStep
    \/ SaveResultsStep

SpecLoad == InitLoad /\ [][NextLoad]_vars


(***************************************************************************)
(* C4: a successful load_model(model_path, feature_config_path) for the    *)
(* artifacts of run r sets optimal_threshold to the threshold recorded by  *)
(* run r itself; and a successful auto_load_latest_model loads a model, a  *)
(* feature config and a threshold that come from one and the same run.     *)
(***************************************************************************)
ThresholdOfTheLoadedRun ==
    (/\ reload = NoCall
     /\ last_load # None
     /\ ~Get(last_load).raised
     /\ Get(last_load).complete) =>
        LET l == Get(last_load)
        IN /\ (l.call = "load_model" /\ l.model_path = l.feature_config_path)
                => engine.optimal_threshold = Some(l.model_path)
           /\ l.call = "auto_load_latest_model"
                => /\ Get(engine.feature_extractor) = ExtractorOf(Get(engine.model).run)
                   /\ engine.optimal_threshold = Some(Get(engine.model).run)

(***************************************************************************)
(* C6: if load_model fails at any step, the exception reaches the caller   *)
(* and afterwards either is_loaded is false, or model, feature transform   *)
(* and threshold are exactly those of one earlier successful load.         *)
(***************************************************************************)
FailedLoadLeavesNoPartialEngine ==
    (reload = NoCall /\ last_load # None /\ Get(last_load).raised) =>
        \/ ~engine.is_loaded
        \/ Triple(engine) \in good_loads

(***************************************************************************)
(* ThreatDetectionEngine.analyze_single_log and analyze_batch_logs.        *)
(*                                                                         *)
(* A frame is the sequence of its rows; a row keeps the raw message and    *)
(* the source and log_type it was built with.  A column name made of a     *)
(* prefix and a value is the pair <<prefix, value>>.  A result dictionary  *)
(* is a record; a call's outcome is [raised, value].                       *)
(***************************************************************************)
MaxBatch == 2         \* longest list given to analyze_batch_logs

Messages == {"GET /index.html HTTP/1.1 200",
             "SELECT * FROM users WHERE id=1; DROP TABLE users;--"}
SourceNames == {"api", "KDD", "loghub"}
LogTypes == {"system", "ait", "auth log"}

\* _add_text_features, the has_command_injection column of a message in use:
\* the pattern ;|\||&|`|\$\(|\${|<|>|\.\./|/etc/|/bin/|cmd\.exe|powershell
\* finds the ';' of the SQL message and nothing in the GET line
has_command_injection(log_message) ==
    IF log_message = "SELECT * FROM users WHERE id=1; DROP TABLE users;--"
    THEN 1 ELSE 0

\* preprocess_log: a one-row DataFrame
preprocess_log(log_message, kwargs) ==
    <<[raw_message |-> log_message, log_type |-> kwargs.log_type,
       source |-> kwargs.source]>>

\* the except branch of analyze_single_log
ErrorResult(log_message, e) ==
    [log_message |-> log_message, is_threat |-> FALSE, threat_level |-> "error",
     anomaly_score |-> 0, error |-> e, timestamp |-> "now"]

\* the except branch of analyze_batch_logs
BatchErrorResult(log_message, e) ==
    [log_message |-> log_message, is_threat |-> FALSE, threat_level |-> "error",
     error |-> e]

\* sigmoid(error / error.mean()) for a batch of one: sigmoid(1) = 0.73, and
\* nan (kept as -1: every comparison with a band limit is false) for 0/0
SingleAnomalyScore(reconstruction_error) ==
    IF reconstruction_error = 0 THEN 0 - 1 ELSE 73

\* the error the forward pass gives a message (a stand-in for the network)
get_reconstruction_error(model, log_message) ==
    IF log_message = "GET /index.html HTTP/1.1 200" THEN 0 ELSE model.run

\* analyze_single_log from "Get model predictions" to the result
Verdict(e, log_message, kwargs) ==
    LET reconstruction_error == get_reconstruction_error(Get(e.model), log_message)
        anomaly_score == SingleAnomalyScore(reconstruction_error)
    IN [log_message |-> log_message,
        is_threat |-> is_threat(reconstruction_error, 100 * Get(e.optimal_threshold)),
        threat_level |-> _classify_threat_level(anomaly_score),
        anomaly_score |-> anomaly_score,
        reconstruction_error |-> reconstruction_error,
        threshold |-> 100 * Get(e.optimal_threshold),
        confidence |-> IF anomaly_score < 100 THEN anomaly_score ELSE 100,
        inference_time_ms |-> 0,
        timestamp |-> "now",
        metadata |-> kwargs]

analyze_single_log(e, log_message, kwargs) ==
    IF ~e.is_loaded
    THEN [raised |-> TRUE, value |-> None]
    ELSE LET log_df == preprocess_log(log_message, kwargs)
             enhanced_df == extractor_extract_features(log_df)
         IN IF enhanced_df.raised
            THEN [raised |-> FALSE, value |-> Some(ErrorResult(log_message, "KeyError"))]
            ELSE IF Get(e.feature_extractor).feature_selector = 0
            THEN [raised |-> FALSE,
                  value |-> Some(ErrorResult(log_message, "NotFittedError"))]
            ELSE IF e.optimal_threshold = None
            THEN [raised |-> FALSE, value |-> Some(ErrorResult(log_message, "TypeError"))]
            ELSE [raised |-> FALSE, value |-> Some(Verdict(e, log_message, kwargs))]

\* variant of CountVerdict: every verdict is counted as a threat
CountVerdictAsThreat(st, verdict_is_threat) ==
    [detection_count |-> st.detection_count + 1,
     threat_count |-> st.threat_count + 1,
     inference_times |-> Append(st.inference_times, 0)]

\* self.inference_times.append(inference_time); self.detection_count += 1;
\* if is_threat: self.threat_count += 1
CountVerdict(st, verdict_is_threat) ==
    [detection_count |-> st.detection_count + 1,
     threat_count |-> st.threat_count + (IF verdict_is_threat THEN 1 ELSE 0),
     inference_times |-> Append(st.inference_times, 0)]

\* analyze_single_log with the counters: they are updated after the last
\* statement that can raise, so only a call that returns a verdict counts
analyze_single_log_counted(e, st, log_message, kwargs) ==
    LET outcome == analyze_single_log(e, log_message, kwargs)
    IN [raised |-> outcome.raised,
        result |-> outcome.value,
        stats |-> IF outcome.raised \/ "error" \in DOMAIN Get(outcome.value)
                  THEN st
                  ELSE CountVerdict(st, Get(outcome.value).is_threat)]

\* the statements of analyze_single_log from "Get model predictions" on
score_counted(e, st, log_message, kwargs) ==
    LET result == Verdict(e, log_message, kwargs)
    IN [raised |-> FALSE,
        result |-> Some(result),
        stats |-> CountVerdict(st, result.is_threat)]

\* the counters after the loop of analyze_batch_logs over the first n messages
RECURSIVE BatchStats(_, _, _, _, _)
BatchStats(e, st, log_messages, kwargs, n) ==
    IF n = 0 THEN st
    ELSE analyze_single_log_counted(e, BatchStats(e, st, log_messages, kwargs, n - 1),
                                    log_messages[n], kwargs).stats

\* the loop of analyze_batch_logs over the first n messages
RECURSIVE BatchResults(_, _, _, _)
BatchResults(e, log_messages, kwargs, n) ==
    IF n = 0 THEN <<>>
    ELSE LET result == analyze_single_log(e, log_messages[n], kwargs)
         IN Append(BatchResults(e, log_messages, kwargs, n - 1),
                   IF result.raised
                   THEN BatchErrorResult(log_messages[n], "RuntimeError")
                   ELSE Get(result.value))

\* the last log line divides by len(log_messages): ZeroDivisionError
analyze_batch_logs(e, log_messages, kwargs) ==
    LET results == BatchResults(e, log_messages, kwargs, Len(log_messages))
    IN IF Len(log_messages) = 0
       THEN [raised |-> TRUE, value |-> None]
       ELSE [raised |-> FALSE, value |-> Some(results)]

\* sum(1 for r in results if r.get('is_threat', False))
ThreatCount(results) ==
    Cardinality({i \in 1..Len(results) :
                    "is_threat" \in DOMAIN results[i] /\ results[i].is_threat})

\* POST /detect/batch, from the validated JSON body on
detect_threats_batch(e, log_messages, kwargs) ==
    IF Len(log_messages) = 0
    THEN [status |-> 400, body |-> None]
    ELSE LET results == analyze_batch_logs(e, log_messages, kwargs)
         IN IF results.raised
            THEN [status |-> 500, body |-> None]
            ELSE [status |-> 200,
                  body |-> Some([batch_summary |->
                                    [total_logs |-> Len(log_messages),
                                     threats_detected |-> ThreatCount(Get(results.value))],
                                 results |-> Get(results.value)])]

(***************************************************************************)
(* SpecReload: the threaded Flask server.  One request thread is inside    *)
(* POST /admin/reload_model (auto_load_latest_model on the shared engine,  *)
(* one statement at a time), another inside analyze_single_log, which      *)
(* reads self.is_loaded and then self.feature_extractor; no lock is taken  *)
(* anywhere.  Every run on disk is complete, and the training pipeline may *)
(* save a new one at any time.                                             *)
(***************************************************************************)
InitReload ==
    /\ \E k \in Runs :
          disk = [models |-> 1..k, features |-> 1..k, results |-> 1..k, partial |-> {}]
    /\ saving = NotSaving
    /\ engine = NewEngine
    /\ last_load = None
    /\ good_loads = {}
    /\ reload = NoCall
    /\ analyze = NotAnalyzing
    /\ observed = None
    /\ IdleSeq
    /\ IdlePipe
    /\ IdleTrain
    /\ IdleThr
    /\ IdleCall
    /\ IdleFit
    /\ IdleOther

\* reload_model: engine = get_inference_engine(); engine.auto_load_latest_model()
ReloadStart ==
    /\ reload.pc = "idle"
    /\ reload' = AutoLoadCall(disk)
    /\ UNCHANGED <<disk, saving, engine, last_load, good_loads, analyze, observed, notEngVars>>

\* analyze_single_log: `if not self.is_loaded: raise RuntimeError`; a request
\* that is turned away changes nothing
AnalyzeStart ==
    /\ analyze.pc = "idle"
    /\ engine.is_loaded
    /\ analyze' = [analyze EXCEPT !.pc = "features"]
    /\ UNCHANGED <<disk, saving, engine, last_load, good_loads, reload, observed, notEngVars>>

\* self.feature_extractor.extract_features(log_df), on the extractor
\* self.feature_extractor names now; for the one-record frame it raises
\* KeyError, the except branch returns the error result, and neither
\* self.model nor self.optimal_threshold is read
AnalyzeFeatures ==
    /\ analyze.pc = "features"
    /\ extractor_extract_features(
           preprocess_log("GET /index.html HTTP/1.1 200",
                          [source |-> "api", log_type |-> "system"])).raised
    /\ observed' = Some([features |-> engine.feature_extractor])
    /\ analyze' = NotAnalyzing
    /\ UNCHANGED <<disk, saving, engine, last_load, good_loads, reload, notEngVars>>

NextReload ==
    \/ ReloadStart
    \/ ReloadStep
    \/ AnalyzeStart
    \/ AnalyzeFeatures
    \/ SaveResultsStep

SpecReload == InitReload /\ [][NextReload]_vars

(***************************************************************************)
(* C5: with a model reload running concurrently with analyze_single_log,   *)
(* no inference observes a torn engine: every inference uses a model (with *)
(* its restored weights), a feature transform and a threshold that all     *)
(* belong to one completed load.                                           *)
(***************************************************************************)
NoTornInference ==
    observed # None =>
        \E completed \in good_loads : completed.features = Get(observed).features

(***************************************************************************)
(* SpecAnalyze: one engine, new or loaded from the complete artifacts of a *)
(* run, and one call on a list of messages with one set of metadata.       *)
(***************************************************************************)
AllRuns == [models |-> Runs, features |-> Runs, results |-> Runs, partial |-> {}]

Batches == UNION {[1..n -> Messages] : n \in 0..MaxBatch}

InitAnalyze ==
    /\ disk = AllRuns
    /\ saving = NotSaving
    /\ \E r \in Runs : engine \in {NewEngine, load_model(NewEngine, r, r, disk).e}
    /\ last_load = None
    /\ good_loads = {}
    /\ reload = NoCall
    /\ analyze = NotAnalyzing
    /\ observed = None
    /\ \E log_messages \in Batches, source \in SourceNames, log_type \in LogTypes :
          inputs = Some([log_messages |-> log_messages,
                         kwargs |-> [source |-> source, log_type |-> log_type]])
    /\ outputs = None
    /\ IdleSeq
    /\ IdlePipe
    /\ IdleTrain
    /\ IdleThr
    /\ IdleFit
    /\ IdleOther

\* a call that does not touch the counters of the engine has answered
Answered(op, outcome) ==
    /\ outputs = None
    /\ outputs' = Some([op |-> op, outcome |-> outcome])
    /\ UNCHANGED <<inputs, engVars, notEngCallVars>>

\* a call has answered and left the counters st in the engine
AnsweredCounted(op, outcome, st) ==
    /\ outputs = None
    /\ outputs' = Some([op |-> op, outcome |-> outcome])
    /\ stats' = st
    /\ UNCHANGED <<inputs, engVars, notEngCallStatVars>>

AnalyzeSingleLog ==
    /\ Len(Get(inputs).log_messages) >= 1
    /\ AnsweredCounted("analyze_single_log",
                       analyze_single_log(engine, Get(inputs).log_messages[1],
                                          Get(inputs).kwargs),
                       analyze_single_log_counted(engine, stats,
                                                  Get(inputs).log_messages[1],
                                                  Get(inputs).kwargs).stats)

AnalyzeBatchLogs ==
    AnsweredCounted("analyze_batch_logs",
                    analyze_batch_logs(engine, Get(inputs).log_messages, Get(inputs).kwargs),
                    BatchStats(engine, stats, Get(inputs).log_messages,
                               Get(inputs).kwargs, Len(Get(inputs).log_messages)))

DetectThreatsBatch ==
    AnsweredCounted("detect_threats_batch",
                    detect_threats_batch(engine, Get(inputs).log_messages,
                                         Get(inputs).kwargs),
                    BatchStats(engine, stats, Get(inputs).log_messages,
                               Get(inputs).kwargs, Len(Get(inputs).log_messages)))

\* extract_features on a frame of several records: the messages of the
\* call, the first with the metadata of the call and every other one with
\* a source and a log type of its own
ExtractFeaturesOfFrame ==
    /\ Len(Get(inputs).log_messages) >= 1
    /\ \E sources \in [1..(Len(Get(inputs).log_messages) - 1) -> SourceNames],
          log_types \in [1..(Len(Get(inputs).log_messages) - 1) -> LogTypes] :
          LET df == [i \in 1..Len(Get(inputs).log_messages) |->
                        [raw_message |-> Get(inputs).log_messages[i],
                         log_type |-> IF i = 1 THEN Get(inputs).kwargs.log_type
                                      ELSE log_types[i - 1],
                         source |-> IF i = 1 THEN Get(inputs).kwargs.source
                                    ELSE sources[i - 1]]]
          IN Answered("extract_features",
                      [df |-> df, raised |-> extractor_extract_features(df).raised])

NextAnalyze ==
    \/ AnalyzeSingleLog
    \/ AnalyzeBatchLogs
    \/ DetectThreatsBatch
    \/ ExtractFeaturesOfFrame

SpecAnalyze == InitAnalyze /\ [][NextAnalyze]_vars

\* the result dictionaries a finished call handed back
ResultsReturned ==
    IF outputs = None THEN {}
    ELSE LET o == Get(outputs)
         IN IF o.op = "extract_features" THEN {}
            ELSE IF o.op = "analyze_single_log"
            THEN IF o.outcome.raised THEN {} ELSE {Get(o.outcome.value)}
            ELSE IF o.op = "analyze_batch_logs"
            THEN IF o.outcome.raised THEN {}
                 ELSE {Get(o.outcome.value)[i] : i \in 1..Len(Get(o.outcome.value))}
            ELSE IF o.outcome.status # 200 THEN {}
                 ELSE {Get(o.outcome.body).results[i] :
                          i \in 1..Len(Get(o.outcome.body).results)}

WireFields ==
    {"is_threat", "threat_level", "anomaly_score", "reconstruction_error",
     "threshold", "confidence", "inference_time_ms"}

(***************************************************************************)
(* C14: every result dictionary returned by analyze_single_log on a loaded *)
(* engine, and so every element returned by analyze_batch_logs, contains   *)
(* the seven wire fields is_threat, threat_level, anomaly_score,           *)
(* reconstruction_error, threshold, confidence and inference_time_ms,      *)
(* with is_threat a boolean and threat_level one of normal, low, medium,   *)
(* high, critical.                                                         *)
(***************************************************************************)
WireContract ==
    engine.is_loaded =>
        \A r \in ResultsReturned :
            /\ WireFields \subseteq DOMAIN r
            /\ r.is_threat \in BOOLEAN
            /\ r.threat_level \in {Levels[k] : k \in 1..Len(Levels)}

(***************************************************************************)
(* C15: when a stage of the scoring pipeline fails inside                  *)
(* analyze_single_log or analyze_batch_logs, or the engine is not loaded,  *)
(* the failure is raised or returned as a failure: a failed record never   *)
(* carries a default verdict such as is_threat = false with                *)
(* anomaly_score = 0.0.                                                    *)
(***************************************************************************)
FailuresCarryNoVerdict ==
    \A r \in ResultsReturned :
        "error" \in DOMAIN r => "is_threat" \notin DOMAIN r

(***************************************************************************)
(* C18: for any list of log messages, the empty list and lists with        *)
(* failing records included, analyze_batch_logs returns one result per     *)
(* message in input order, and the number of results with is_threat true   *)
(* equals batch_summary.threats_detected of that batch.                    *)
(***************************************************************************)
OneResultPerMessage ==
    outputs # None =>
        LET o == Get(outputs)
            log_messages == Get(inputs).log_messages
        IN /\ o.op = "analyze_batch_logs" =>
                /\ ~o.outcome.raised
                /\ Len(Get(o.outcome.value)) = Len(log_messages)
                /\ \A i \in 1..Len(log_messages) :
                      Get(o.outcome.value)[i].log_message = log_messages[i]
           /\ (o.op = "detect_threats_batch" /\ o.outcome.status = 200) =>
                /\ Len(Get(o.outcome.body).results) = Len(log_messages)
                /\ Get(o.outcome.body).batch_summary.threats_detected
                      = ThreatCount(Get(o.outcome.body).results)

(***************************************************************************)
(* C21: on an engine loaded with a trained model, analyze_single_log of    *)
(* "SELECT * FROM users WHERE id=1; DROP TABLE users;--" sets              *)
(* has_command_injection = 1 during feature extraction and returns a       *)
(* threat_level in medium, high, critical (never normal, low or an error   *)
(* marker).                                                                *)
(***************************************************************************)
InjectionIsAThreat ==
    (/\ outputs # None
     /\ Get(outputs).op = "analyze_single_log"
     /\ engine.is_loaded
     /\ Get(inputs).log_messages[1]
            = "SELECT * FROM users WHERE id=1; DROP TABLE users;--") =>
        /\ has_command_injection(Get(inputs).log_messages[1]) = 1
        /\ ~Get(outputs).outcome.raised
        /\ Get(Get(outputs).outcome.value).threat_level
              \in {"medium", "high", "critical"}

(***************************************************************************)
(* C24: extract_features completes only for a batch whose one-hot step     *)
(* produces all three of the columns is_kdd, is_ait and is_loghub, and on  *)
(* any other batch it raises.  A one-record frame yields at most two of    *)
(* them, hence every analyze_single_log call on a loaded engine takes the  *)
(* error path (threat_level 'error', is_threat false) and never reaches    *)
(* model scoring.                                                          *)
(***************************************************************************)
\* some record of the frame has the source, or the log type, of that name
Present(df, name) ==
    \E i \in 1..Len(df) : Lower(df[i].source) = name \/ CleanName(df[i].log_type) = name

ExtractionNeedsAllThreeSources ==
    outputs # None =>
        LET o == Get(outputs)
        IN /\ o.op = "extract_features" =>
                (~o.outcome.raised <=>
                    (/\ Present(o.outcome.df, "kdd")
                     /\ Present(o.outcome.df, "ait")
                     /\ Present(o.outcome.df, "loghub")))
           /\ (o.op = "analyze_single_log" /\ engine.is_loaded) =>
                /\ ~o.outcome.raised
                /\ Get(o.outcome.value).threat_level = "error"
                /\ Get(o.outcome.value).is_threat = FALSE
                /\ "reconstruction_error" \notin DOMAIN Get(o.outcome.value)

\* a loaded engine answered a record that has two of the three names
ExtractionNeedsAllThreeSourcesWitness ==
    /\ outputs # None
    /\ Get(outputs).op = "analyze_single_log"
    /\ engine.is_loaded
    /\ Get(inputs).kwargs = [source |-> "KDD", log_type |-> "ait"]
    /\ Get(Get(outputs).outcome.value).threat_level = "error"

\* extract_features returned for a frame of two records
ExtractionCompletes ==
    /\ outputs # None
    /\ Get(outputs).op = "extract_features"
    /\ ~Get(outputs).outcome.raised

(***************************************************************************)
(* The fitted transform of CybersecurityFeatureExtractor: SelectKBest and  *)
(* StandardScaler.  A DataFrame is [columns, dtypes, rows]: the column     *)
(* names in order, the dtype of every column, and the rows as sequences of *)
(* cells in that order.  The cell of an object column stands for a string  *)
(* (CellString).  A matrix is [rows, dim]; it carries no names.  A method  *)
(* of a fitted object returns [raised, value, self]: self is the object    *)
(* after the call.                                                         *)
(***************************************************************************)
ExcludeCols == {"raw_message", "source", "log_type", "server"}

Range(f) == {f[i] : i \in DOMAIN f}

\* the dtype pandas gives the columns in use: strings are object columns
DType(col) ==
    IF col \in {"raw_message", "source", "log_type", "server", "attack_type", "port"}
    THEN "object"
    ELSE IF col = "entropy" THEN "float64"
    ELSE "int64"

\* the string a cell of an object column stands for: port holds the digits
\* it was read with, every other object column holds words
CellString(col, c) ==
    IF col = "port" THEN (IF c = 0 THEN "0" ELSE "1")
    ELSE (IF c = 0 THEN "normal" ELSE "dos")

\* pd.to_numeric(df[col]) of an object column: ValueError unless every cell
\* is the text of a number
to_numeric(df, j) ==
    [raised |-> \E i \in 1..Len(df.rows) :
                    CellString(df.columns[j], df.rows[i][j]) \notin {"0", "1"}]

\* `if col not in exclude_cols:` and the dtype test under it
IsNumericColumn(df, j) ==
    /\ df.columns[j] \notin ExcludeCols
    /\ \/ df.dtypes[j] \in {"int64", "float64", "bool"}
       \/ df.dtypes[j] = "object" /\ ~to_numeric(df, j).raised

_select_numeric_features(df) ==
    LET kept == SelectSeq([j \in 1..Len(df.columns) |-> j],
                          LAMBDA j : IsNumericColumn(df, j))
    IN [k \in 1..Len(kept) |-> df.columns[kept[k]]]

IndexOf(columns, name) == CHOOSE j \in 1..Len(columns) : columns[j] = name

\* df[names].values: the named columns, in the order of names; KeyError
\* when a name is not a column of df
Values(df, names) ==
    IF Range(names) \subseteq Range(df.columns)
    THEN [raised |-> FALSE,
          value |-> Some([rows |-> [i \in 1..Len(df.rows) |->
                                       [k \in 1..Len(names) |->
                                           df.rows[i][IndexOf(df.columns, names[k])]]],
                          dim |-> Len(names)])]
    ELSE [raised |-> TRUE, value |-> None]

\* the positions of a support mask, ascending
Positions(support, n) ==
    SelectSeq([j \in 1..n |-> j], LAMBDA j : j \in support)

\* X[:, support]
TakeColumns(M, support) ==
    LET pos == Positions(support, M.dim)
    IN [rows |-> [i \in 1..Len(M.rows) |-> [k \in 1..Len(pos) |-> M.rows[i][pos[k]]]],
        dim |-> Len(pos)]

\* SelectKBest.fit: f_classif's ranking is not computed; support is the
\* set of the k positions it kept, any k of the columns, and scores_ is
\* kept as the training matrix (label column included) it is computed from
selector_fit(M, support) ==
    [n_features_in |-> M.dim, support |-> support, scores |-> M]

\* SelectKBest.transform: checks the number of columns of a nameless array,
\* nothing else
selector_transform(selector, M) ==
    IF selector = None \/ M.dim # Get(selector).n_features_in
    THEN [raised |-> TRUE, value |-> None, self |-> selector]
    ELSE [raised |-> FALSE, value |-> Some(TakeColumns(M, Get(selector).support)),
          self |-> selector]

RECURSIVE ColumnSum(_, _, _, _)
ColumnSum(M, j, power, n) ==
    IF n = 0 THEN 0
    ELSE ColumnSum(M, j, power, n - 1)
            + (IF power = 2 THEN M.rows[n][j] * M.rows[n][j] ELSE M.rows[n][j])

\* StandardScaler.fit: mean_ and var_ of every column, as fractions
scaler_fit(M) ==
    LET n == Len(M.rows)
    IN [n_features_in |-> M.dim,
        mean |-> [j \in 1..M.dim |-> [num |-> ColumnSum(M, j, 1, n), den |-> n]],
        var |-> [j \in 1..M.dim |->
                    [num |-> n * ColumnSum(M, j, 2, n)
                                - ColumnSum(M, j, 1, n) * ColumnSum(M, j, 1, n),
                     den |-> n * n]]]

\* (x - mean_) / sqrt(var_), kept as the centred value and the variance
Scaled(scaler, M) ==
    [rows |-> [i \in 1..Len(M.rows) |->
                  [j \in 1..M.dim |->
                      [centred |-> [num |-> M.rows[i][j] * scaler.mean[j].den
                                              - scaler.mean[j].num,
                                    den |-> scaler.mean[j].den],
                       var |-> scaler.var[j]]]],
     dim |-> M.dim]

\* StandardScaler.fit_transform
scaler_fit_transform(scaler, M) ==
    [raised |-> FALSE, value |-> Some(Scaled(scaler_fit(M), M)),
     self |-> Some(scaler_fit(M))]

\* variant of scaler_transform: the data it is applied to is fitted too
scaler_transform_refitting(scaler, M) ==
    IF scaler = None \/ M.dim # Get(scaler).n_features_in
    THEN [raised |-> TRUE, value |-> None, self |-> scaler]
    ELSE scaler_fit_transform(scaler, M)

\* StandardScaler.transform
scaler_transform(scaler, M) ==
    IF scaler = None \/ M.dim # Get(scaler).n_features_in
    THEN [raised |-> TRUE, value |-> None, self |-> scaler]
    ELSE [raised |-> FALSE, value |-> Some(Scaled(Get(scaler), M)), self |-> scaler]

\* CybersecurityFeatureExtractor.__init__
NewExtractor(k) ==
    [sequence_length |-> SequenceLength, selected_features |-> k,
     feature_selector |-> None, scaler |-> None,
     feature_names |-> <<>>, is_fitted |-> FALSE]

(***************************************************************************)
(* SpecFit: prepare_for_training on three extracted splits, statement by   *)
(* statement, and then analyze_single_log on one record with the fitted    *)
(* extractor: preprocess_log, extract_features, and the transform          *)
(* statements on the frame extract_features returns.                       *)
(***************************************************************************)
\* a row of n cells
Fill(n, a) == [j \in 1..n |-> (a + j) % 2]

DataFrame(columns, fills) ==
    [columns |-> columns,
     dtypes |-> [j \in 1..Len(columns) |-> DType(columns[j])],
     rows |-> [i \in 1..Len(fills) |-> Fill(Len(columns), fills[i])]]

Reverse(q) == [i \in 1..Len(q) |-> q[Len(q) + 1 - i]]

TrainColumns ==
    {<<"source", "message_length", "entropy", "is_attack">>,
     <<"message_length", "is_attack", "entropy">>,
     <<"attack_type", "message_length", "port", "is_attack">>}

\* the columns preprocess_log gives the frame of a record, in the order of
\* its dictionary, as far as they are columns in use
PreprocessLogColumns ==
    <<"raw_message", "message_length", "log_type", "source", "is_attack", "entropy">>

InitFit ==
    /\ \E columns \in TrainColumns,
          train \in [1..2 -> Cells], val \in [1..1 -> Cells], test \in [1..1 -> Cells],
          log_message \in Messages, source \in SourceNames, log_type \in LogTypes :
          inputs = Some([train_features |-> DataFrame(columns, train),
                         val_features |-> DataFrame(Reverse(columns), val),
                         test_features |-> DataFrame(columns, test),
                         log_message |-> log_message,
                         kwargs |-> [source |-> source, log_type |-> log_type]])
    /\ outputs = None
    /\ \E k \in 1..2 : extractor = Some(NewExtractor(k))
    /\ fit_pc = "select_fit"
    /\ IdleSeq
    /\ IdlePipe
    /\ IdleTrain
    /\ IdleThr
    /\ IdleEng
    /\ IdleOther

\* numeric_features and the three feature matrices of prepare_for_training
numeric_features == _select_numeric_features(Get(inputs).train_features)
X_train == Get(Values(Get(inputs).train_features, numeric_features).value)
X_val == Get(Values(Get(inputs).val_features, numeric_features).value)
X_test == Get(Values(Get(inputs).test_features, numeric_features).value)

\* `if not self.is_fitted:` fit the selector on the training matrix
FitSelector ==
    /\ fit_pc = "select_fit"
    /\ IF Get(extractor).is_fitted
       THEN extractor' = extractor
       ELSE \E support \in SUBSET (1..X_train.dim) :
          /\ Cardinality(support) = Get(extractor).selected_features
          /\ extractor' = Some([Get(extractor) EXCEPT
                  !.feature_selector = Some(selector_fit(X_train, support)),
                  !.feature_names = [k \in 1..Cardinality(support) |->
                         numeric_features[Positions(support, X_train.dim)[k]]],
                  !.is_fitted = TRUE])
    /\ fit_pc' = "select_transform"
    /\ UNCHANGED <<inputs, outputs, notFitCallVars>>

\* what the three calls leave of the object they are made on
AfterThree(a, b, c) == c.self

\* feature_selector.transform of the training, validation and test matrices
SelectTransform ==
    /\ fit_pc = "select_transform"
    /\ LET a == selector_transform(Get(extractor).feature_selector, X_train)
           b == selector_transform(a.self, X_val)
           c == selector_transform(b.self, X_test)
       IN extractor' = Some([Get(extractor) EXCEPT
                                !.feature_selector = AfterThree(a, b, c)])
    /\ fit_pc' = "scale_fit"
    /\ UNCHANGED <<inputs, outputs, notFitCallVars>>

X_train_selected == TakeColumns(X_train, Get(Get(extractor).feature_selector).support)
X_val_selected == TakeColumns(X_val, Get(Get(extractor).feature_selector).support)
X_test_selected == TakeColumns(X_test, Get(Get(extractor).feature_selector).support)

\* self.scaler.fit_transform(X_train_selected)
ScaleFit ==
    /\ fit_pc = "scale_fit"
    /\ extractor' = Some([Get(extractor) EXCEPT
          !.scaler = scaler_fit_transform(Get(extractor).scaler, X_train_selected).self])
    /\ fit_pc' = "scale_transform"
    /\ UNCHANGED <<inputs, outputs, notFitCallVars>>

\* self.scaler.transform of the validation and test matrices; the call returns
ScaleTransform ==
    /\ fit_pc = "scale_transform"
    /\ LET b == scaler_transform(Get(extractor).scaler, X_val_selected)
           c == scaler_transform(b.self, X_test_selected)
       IN extractor' = Some([Get(extractor) EXCEPT !.scaler = c.self])
    /\ fit_pc' = "fitted"
    /\ UNCHANGED <<inputs, outputs, notFitCallVars>>

\* the frame extract_features returns for the one-row frame of a record, as
\* the transform statements read it: the columns of preprocess_log, in its
\* order
EnhancedFrame(features) ==
    LET rows == Get(features.value).rows
    IN DataFrame(PreprocessLogColumns,
                 [i \in 1..Len(rows) |-> has_command_injection(rows[i].raw_message)])

\* analyze_single_log from "Select numerical features" to X_scaled, on the
\* frame extract_features returned: the columns of the record's own frame,
\* as a nameless array
transform_record(ext, enhanced_df) ==
    LET names == _select_numeric_features(enhanced_df)
        M == Get(Values(enhanced_df, names).value)
        picked == selector_transform(ext.feature_selector, M)
        scaled == IF picked.raised
                  THEN [raised |-> TRUE, value |-> None, self |-> ext.scaler]
                  ELSE scaler_transform(ext.scaler, Get(picked.value))
    IN [raised |-> scaled.raised,
        error |-> IF scaled.raised THEN "ValueError" ELSE "none",
        given |-> Some(names),
        scored |-> IF scaled.raised THEN <<>>
                   ELSE [k \in 1..Get(scaled.value).dim |->
                            names[Positions(Get(ext.feature_selector).support,
                                            Len(names))[k]]],
        self |-> [ext EXCEPT !.feature_selector = picked.self,
                             !.scaler = scaled.self]]

\* analyze_single_log from "Preprocess log" to X_scaled: the transform
\* statements follow extract_features, and a statement that raises ends the
\* call in the except branch, with no column derived and no matrix scored
analyze_record(ext, log_message, kwargs) ==
    LET log_df == preprocess_log(log_message, kwargs)
        enhanced_df == extractor_extract_features(log_df)
    IN IF enhanced_df.raised
       THEN [raised |-> TRUE, error |-> "KeyError", given |-> None, scored |-> <<>>,
             self |-> ext]
       ELSE transform_record(ext, EnhancedFrame(enhanced_df))

\* the engine serves the record with the fitted extractor
TransformRecord ==
    /\ fit_pc = "fitted"
    /\ outputs = None
    /\ LET r == analyze_record(Get(extractor), Get(inputs).log_message,
                               Get(inputs).kwargs)
       IN /\ outputs' = Some([op |-> "analyze_single_log", raised |-> r.raised,
                              error |-> r.error, given |-> r.given,
                              scored |-> r.scored])
          /\ extractor' = Some(r.self)
    /\ UNCHANGED <<inputs, fit_pc, notFitCallVars>>

NextFit ==
    \/ FitSelector
    \/ SelectTransform
    \/ ScaleFit
    \/ ScaleTransform
    \/ TransformRecord

SpecFit == InitFit /\ [][NextFit]_vars

(***************************************************************************)
(* C19: once the selector and the scaler have been fitted on the training  *)
(* split, applying them to other data (the validation and test splits in   *)
(* prepare_for_training, a record served by analyze_single_log) leaves the *)
(* fitted parameters unchanged: the selected columns, the scaler's mean    *)
(* and the scaler's variance are the same before and after.                *)
(***************************************************************************)
TransformLeavesTheFit ==
    [][(fit_pc \in {"select_transform", "scale_transform", "fitted"})
          => (extractor' = extractor)]_vars

\* a record was served by an extractor whose scaler was fitted on training
\* rows that differ from the validation row
TransformLeavesTheFitWitness ==
    /\ fit_pc = "fitted"
    /\ outputs # None
    /\ Get(outputs).op = "analyze_single_log"
    /\ Get(Get(extractor).scaler) = scaler_fit(X_train_selected)
    /\ Get(Get(extractor).scaler) # scaler_fit(X_val_selected)

(***************************************************************************)
(* C20: in analyze_single_log, whenever the numeric columns derived from   *)
(* the record are not the columns the selector and scaler were fitted on   *)
(* (in number, in names or in order; also when none is derived, because    *)
(* extract_features raised), the call fails with an error: a matrix whose  *)
(* columns are misaligned with the fitted transform is never scored, also  *)
(* when the numbers of columns are equal.                                  *)
(***************************************************************************)
MisalignedColumnsAreAnError ==
    (outputs # None /\ Get(outputs).given # Some(numeric_features)) =>
        /\ Get(outputs).raised
        /\ Get(outputs).scored = <<>>

\* a record was served by an extractor fitted on three numeric columns, and
\* the call ended in the except branch with no matrix scored
MisalignedColumnsAreAnErrorWitness ==
    /\ fit_pc = "fitted"
    /\ outputs # None
    /\ Get(outputs).op = "analyze_single_log"
    /\ Get(extractor).is_fitted
    /\ Len(numeric_features) = 3
    /\ Get(outputs).given # Some(numeric_features)
    /\ Get(outputs).error = "KeyError"

(***************************************************************************)
(* C23: the label column is_attack is never one of the columns of the      *)
(* feature matrix that prepare_for_training passes on: the list returned   *)
(* by _select_numeric_features for a training frame does not contain       *)
(* is_attack, and so no selected feature is the label.                     *)
(***************************************************************************)
LabelIsNotAFeature ==
    fit_pc \in {"select_transform", "scale_fit", "scale_transform", "fitted"} =>
        /\ "is_attack" \notin Range(numeric_features)
        /\ "is_attack" \notin Range(Get(extractor).feature_names)

(***************************************************************************)
(* The artifacts of a training run and their reload.  A network is its six *)
(* constructor arguments, its parameters and its mode.  The parameters are *)
(* the tensors of state_dict() by name, each [shape, values]: the shape    *)
(* the constructor arguments give the tensor, and what it holds: 0 as the  *)
(* constructor initialised it, n after n epochs of training.  dropout is   *)
(* in hundredths.  A checkpoint file is the dictionary torch.save writes,  *)
(* a feature config file the dictionary pickle.dump writes, and the        *)
(* results directory the sequence of its training_results_*.json files in  *)
(* the order of their names, each with the evaluation section it holds.    *)
(***************************************************************************)
DefaultSelectedFeatures == 30

\* the names state_dict() gives the parameter tensors: one weight of every
\* submodule (the tensors left out have shapes of the same arguments), with
\* the tensors only a second layer or a second direction has
ParameterNames(num_layers, bidirectional) ==
    {"encoder_lstm.weight_ih_l0", "encoder_fc.0.weight", "decoder_init.0.weight",
     "decoder_lstm.weight_ih_l0", "output_layer.3.weight", "attention.in_proj_weight"}
        \cup (IF num_layers > 1 THEN {"encoder_lstm.weight_ih_l1"} ELSE {})
        \cup (IF bidirectional THEN {"encoder_lstm.weight_ih_l0_reverse"} ELSE {})

\* the shape the constructor gives a tensor; effective_hidden_dim is
\* hidden_dim * (2 if bidirectional else 1), latent_dim is hidden_dim // 2
ParameterShape(name, input_dim, hidden_dim, bidirectional) ==
    LET effective_hidden_dim == hidden_dim * (IF bidirectional THEN 2 ELSE 1)
        latent_dim == hidden_dim \div 2
    IN CASE name \in {"encoder_lstm.weight_ih_l0", "encoder_lstm.weight_ih_l0_reverse"} ->
                <<4 * hidden_dim, input_dim>>
         [] name = "encoder_lstm.weight_ih_l1" -> <<4 * hidden_dim, effective_hidden_dim>>
         [] name = "encoder_fc.0.weight" -> <<hidden_dim, effective_hidden_dim>>
         [] name = "decoder_init.0.weight" -> <<hidden_dim, latent_dim>>
         [] name = "decoder_lstm.weight_ih_l0" -> <<4 * hidden_dim, latent_dim>>
         [] name = "output_layer.3.weight" -> <<input_dim, hidden_dim>>
         [] name = "attention.in_proj_weight" ->
                <<3 * effective_hidden_dim, effective_hidden_dim>>

\* LSTMAutoencoder.__init__: a new module is in training mode, its
\* parameters freshly initialised
LSTMAutoencoder(model_config) ==
    [input_dim |-> model_config.input_dim,
     sequence_length |-> model_config.sequence_length,
     hidden_dim |-> model_config.hidden_dim,
     num_layers |-> model_config.num_layers,
     dropout |-> model_config.dropout,
     bidirectional |-> model_config.bidirectional,
     parameters |-> [name \in ParameterNames(model_config.num_layers,
                                             model_config.bidirectional) |->
                        [shape |-> ParameterShape(name, model_config.input_dim,
                                                  model_config.hidden_dim,
                                                  model_config.bidirectional),
                         values |-> 0]],
     training |-> TRUE]

\* CybersecurityLSTMTrainer.save_model: the dictionary torch.save writes, as
\* far as the engine reads it back: model.state_dict(), and a model_config
\* read from the six attributes of the model
save_model(model) ==
    [model_state_dict |-> model.parameters,
     model_config |-> [input_dim |-> model.input_dim,
                       sequence_length |-> model.sequence_length,
                       hidden_dim |-> model.hidden_dim,
                       num_layers |-> model.num_layers,
                       dropout |-> model.dropout,
                       bidirectional |-> model.bidirectional]]

\* nn.Module.load_state_dict (strict): every tensor of the module whose name
\* is in the dictionary with the same shape is copied; then a missing name,
\* a name the module does not have or a tensor of another shape is a
\* RuntimeError, with the tensors that matched already copied
module_load_state_dict(model, model_state_dict) ==
    LET own == DOMAIN model.parameters
        Matches(name) ==
            /\ name \in DOMAIN model_state_dict
            /\ model_state_dict[name].shape = model.parameters[name].shape
    IN [raised |-> \/ \E name \in own : ~Matches(name)
                   \/ DOMAIN model_state_dict \ own # {},
        self |-> [model EXCEPT !.parameters =
                     [name \in own |-> IF Matches(name) THEN model_state_dict[name]
                                       ELSE model.parameters[name]]]]

\* nn.Module.eval
module_eval(model) == [model EXCEPT !.training = FALSE]

\* ThreatDetectionEngine.load_model, the statements that build self.model
\* from the checkpoint; self.model is assigned before load_state_dict, so
\* a call that raises there leaves the new module, in training mode
load_checkpoint(ckpt) ==
    LET constructed_model == LSTMAutoencoder(ckpt.model_config)
        restored == module_load_state_dict(constructed_model,
                                           ckpt.model_state_dict)
    IN IF restored.raised
       THEN [raised |-> TRUE, value |-> Some(restored.self)]
       ELSE [raised |-> FALSE, value |-> Some(module_eval(restored.self))]

\* CybersecurityFeatureExtractor.save_feature_config: the pickled dictionary
save_feature_config(ext) ==
    [scaler |-> ext.scaler,
     feature_selector |-> ext.feature_selector,
     feature_names |-> ext.feature_names,
     sequence_length |-> ext.sequence_length,
     selected_features |-> ext.selected_features,
     is_fitted |-> ext.is_fitted]

\* CybersecurityFeatureExtractor.load_feature_config
load_feature_config(ext, config) ==
    [ext EXCEPT !.scaler = config.scaler,
                !.feature_selector = config.feature_selector,
                !.feature_names = config.feature_names,
                !.sequence_length = config.sequence_length,
                !.selected_features = config.selected_features,
                !.is_fitted = config.is_fitted]

\* ThreatDetectionEngine.load_model, "Load optimal threshold from training
\* results": max() of the results files is the one with the greatest name
\* (ValueError when there is none), and the threshold is read from its
\* evaluation section (KeyError when the file has none)
load_optimal_threshold(results_dir) ==
    IF results_dir = <<>>
    THEN [raised |-> TRUE, error |-> "ValueError", value |-> None]
    ELSE LET training_results == results_dir[Len(results_dir)]
         IN IF training_results.evaluation = None
            THEN [raised |-> TRUE, error |-> "KeyError", value |-> None]
            ELSE [raised |-> FALSE, error |-> "none",
                  value |-> Some(Get(training_results.evaluation).optimal_threshold)]

\* the forward pass, which get_reconstruction_error runs in the mode the
\* module is in: a function of the constructor arguments, the parameters
\* and the input, and of the dropout masks when the module is in training
\* mode with a dropout rate above zero
Forward(model, x) ==
    [input_dim |-> model.input_dim, sequence_length |-> model.sequence_length,
     hidden_dim |-> model.hidden_dim, num_layers |-> model.num_layers,
     bidirectional |-> model.bidirectional, parameters |-> model.parameters,
     x |-> x,
     dropout_masks |-> IF model.training /\ model.dropout > 0
                       THEN model.dropout ELSE 0]

(***************************************************************************)
(* SpecRoundTrip: a trained network and an extractor are saved by          *)
(* save_model and save_feature_config and read back by the engine's        *)
(* load_model, next to the results directory as it is at that time.        *)
(***************************************************************************)
\* hidden_dim is a multiple of the 8 attention heads, as the constructor of
\* nn.MultiheadAttention requires
ModelConfigs ==
    [input_dim : 1..2, sequence_length : {1, SequenceLength}, hidden_dim : {8, 16},
     num_layers : 1..2, dropout : {0, 20}, bidirectional : BOOLEAN]

\* an extractor after prepare_for_training on the matrix M kept `support`
Fitted(ext, names, M, support) ==
    [ext EXCEPT !.feature_selector = Some(selector_fit(M, support)),
                !.feature_names = [k \in 1..Cardinality(support) |->
                                      names[Positions(support, M.dim)[k]]],
                !.scaler = Some(scaler_fit(TakeColumns(M, support))),
                !.is_fitted = TRUE]

Extractors ==
    LET df == DataFrame(<<"message_length", "is_attack", "entropy">>, <<0, 1>>)
        names == _select_numeric_features(df)
        M == Get(Values(df, names).value)
        new == {[NewExtractor(k) EXCEPT !.sequence_length = n] :
                   k \in 1..2, n \in {1, SequenceLength}}
    IN new \cup UNION {{Fitted(ext, names, M, support) :
                            support \in {S \in SUBSET (1..M.dim) :
                                            Cardinality(S) = ext.selected_features}} :
                        ext \in new}

\* the results directory: no file (no save_results call has reached its
\* json.dump yet), the file of a run that was evaluated, or the file of a
\* save_results call made before evaluate_model, without an evaluation section
ResultsDirs ==
    {<<>>,
     <<[evaluation |-> Some([optimal_threshold |-> 1])]>>,
     <<[evaluation |-> None]>>}

\* the model is in the mode its last use left it in: training mode after the
\* constructor and after train_epoch, evaluation mode after validate
InitRoundTrip ==
    /\ \E model_config \in ModelConfigs, values \in 1..MaxEpochs, training \in BOOLEAN,
          ext \in Extractors, x \in Cells, results_dir \in ResultsDirs :
          inputs = Some([model |-> [LSTMAutoencoder(model_config) EXCEPT
                                       !.parameters = [name \in DOMAIN @ |->
                                           [@[name] EXCEPT !.values = values]],
                                       !.training = training],
                         feature_extractor |-> ext,
                         x |-> x,
                         results_dir |-> results_dir])
    /\ outputs = None
    /\ IdleSeq
    /\ IdlePipe
    /\ IdleTrain
    /\ IdleThr
    /\ IdleEng
    /\ IdleFit
    /\ IdleOther

\* save_results: trainer.save_model and save_feature_config
SaveModelAndFeatureConfig ==
    /\ outputs = None
    /\ outputs' = Some([op |-> "save",
                        checkpoint |-> save_model(Get(inputs).model),
                        feature_config |->
                            save_feature_config(Get(inputs).feature_extractor)])
    /\ UNCHANGED <<inputs, notCallVars>>

\* ThreatDetectionEngine.load_model on the two files, from torch.load to
\* self.is_loaded = True: an exception is re-raised with the attributes
\* assigned so far left on the engine
LoadSavedModel ==
    /\ outputs # None
    /\ Get(outputs).op = "save"
    /\ LET loaded == load_checkpoint(Get(outputs).checkpoint)
           threshold == load_optimal_threshold(Get(inputs).results_dir)
       IN outputs' =
            IF loaded.raised
            THEN Some([op |-> "load", raised |-> TRUE, error |-> "RuntimeError",
                       model |-> loaded.value, feature_extractor |-> None,
                       optimal_threshold |-> None, is_loaded |-> FALSE])
            ELSE Some([op |-> "load", raised |-> threshold.raised,
                       error |-> threshold.error,
                       model |-> loaded.value,
                       feature_extractor |->
                           Some(load_feature_config(
                                    NewExtractor(DefaultSelectedFeatures),
                                    Get(outputs).feature_config)),
                       optimal_threshold |-> threshold.value,
                       is_loaded |-> ~threshold.raised])
    /\ UNCHANGED <<inputs, notCallVars>>

NextRoundTrip ==
    \/ SaveModelAndFeatureConfig
    \/ LoadSavedModel

SpecRoundTrip == InitRoundTrip /\ [][NextRoundTrip]_vars

(***************************************************************************)
(* C22: saving with save_model and save_feature_config and then loading    *)
(* with load_model is a round trip: the call returns, the loaded network   *)
(* has the same six hyperparameters and the same weights as the saved one, *)
(* the loaded extractor has the same scaler, selector, feature names and   *)
(* sequence_length, and the loaded model is in evaluation mode, so the     *)
(* same input yields the same reconstruction error before saving and after *)
(* loading.                                                                *)
(***************************************************************************)
SaveLoadRoundTrip ==
    (outputs # None /\ Get(outputs).op = "load") =>
        LET saved == Get(inputs).model
            saved_ext == Get(inputs).feature_extractor
        IN /\ ~Get(outputs).raised
           /\ Get(outputs).is_loaded
           /\ LET loaded == Get(Get(outputs).model)
                  loaded_ext == Get(Get(outputs).feature_extractor)
              IN /\ loaded.input_dim = saved.input_dim
                 /\ loaded.sequence_length = saved.sequence_length
                 /\ loaded.hidden_dim = saved.hidden_dim
                 /\ loaded.num_layers = saved.num_layers
                 /\ loaded.dropout = saved.dropout
                 /\ loaded.bidirectional = saved.bidirectional
                 /\ loaded.parameters = saved.parameters
                 /\ ~loaded.training
                 /\ Forward(loaded, Get(inputs).x) = Forward(saved, Get(inputs).x)
                 /\ loaded_ext.scaler = saved_ext.scaler
                 /\ loaded_ext.feature_selector = saved_ext.feature_selector
                 /\ loaded_ext.feature_names = saved_ext.feature_names
                 /\ loaded_ext.sequence_length = saved_ext.sequence_length

\* what does hold: the engine is left with a network of the saved
\* hyperparameters and weights, in evaluation mode, and with the saved
\* extractor, whether or not the threshold could be read; the call returns
\* exactly when the latest results file has an evaluation section; and the
\* forward pass after loading is the one the saved network has in
\* evaluation mode
LoadedArtifactsAreTheSavedOnes ==
    (outputs # None /\ Get(outputs).op = "load") =>
        LET saved == Get(inputs).model
            saved_ext == Get(inputs).feature_extractor
            loaded == Get(Get(outputs).model)
            loaded_ext == Get(Get(outputs).feature_extractor)
            results_dir == Get(inputs).results_dir
        IN /\ Get(outputs).raised
                <=> (results_dir = <<>>
                        \/ results_dir[Len(results_dir)].evaluation = None)
           /\ Get(outputs).is_loaded = ~Get(outputs).raised
           /\ save_model(loaded) = save_model(saved)
           /\ ~loaded.training
           /\ Forward(loaded, Get(inputs).x) = Forward(module_eval(saved), Get(inputs).x)
           /\ save_feature_config(loaded_ext) = save_feature_config(saved_ext)

(***************************************************************************)
(* Anomaly scores.  get_anomaly_scores gives every sequence of a batch     *)
(* sigmoid(error / mean error of the batch).  A score is kept in           *)
(* hundredths, rounded down; nan (0 / 0) is kept as -1.                    *)
(***************************************************************************)
ChunkSize == 32

\* ln(k / (100 - k)) in millionths, for k = 50..99: sigmoid(x) >= k / 100
\* exactly when x >= ln(k / (100 - k))
Logit ==
    <<0, 40005, 80043, 120144, 160343, 200671, 241162, 281851, 322773, 363965,
      405465, 447312, 489548, 532217, 575364, 619039, 663294, 708185, 753772,
      800119, 847298, 895384, 944462, 994623, 1045969, 1098612, 1152680,
      1208311, 1265666, 1324925, 1386294, 1450010, 1516347, 1585627, 1658228,
      1734601, 1815290, 1900959, 1992430, 2090741, 2197225, 2313635, 2442347,
      2586689, 2751535, 2944439, 3178054, 3476099, 3891820, 4595120>>

\* torch.sigmoid of num / den >= 0 in single precision, which is 1.0 from
\* about 16.7 on
sigmoid(num, den) ==
    IF num >= 17 * den THEN 100
    ELSE 49 + Max({k \in 1..Len(Logit) : num * 1000000 >= Logit[k] * den})

RECURSIVE SeqSum(_, _)
SeqSum(q, n) == IF n = 0 THEN 0 ELSE SeqSum(q, n - 1) + q[n]

\* variant of get_anomaly_scores: the error is not divided by the batch mean
get_anomaly_scores_of_errors(errors) ==
    [i \in 1..Len(errors) |-> sigmoid(errors[i], 1)]

\* LSTMAutoencoder.get_anomaly_scores on a batch, given the batch's
\* reconstruction errors: errors[i] / mean = errors[i] * n / sum
get_anomaly_scores(errors) ==
    LET n == Len(errors)
        total == SeqSum(errors, n)
    IN [i \in 1..n |-> IF total = 0 THEN 0 - 1 ELSE sigmoid(errors[i] * n, total)]

\* the loop of evaluate_model: `for i in range(0, len(test_tensor), 32)`,
\* from offset i on
RECURSIVE EvaluateChunks(_, _)
EvaluateChunks(errors, i) ==
    IF i >= Len(errors) THEN <<>>
    ELSE LET last == IF i + ChunkSize < Len(errors) THEN i + ChunkSize ELSE Len(errors)
             batch == SubSeq(errors, i + 1, last)
         IN get_anomaly_scores(batch) \o EvaluateChunks(errors, i + ChunkSize)

\* evaluate_model, up to the arrays handed to the metrics
evaluate_model(errors) ==
    [reconstruction_errors |-> errors, anomaly_scores |-> EvaluateChunks(errors, 0)]

(***************************************************************************)
(* SpecScores: the reconstruction errors of a test set, scored as one      *)
(* batch by get_anomaly_scores and in chunks by evaluate_model, and the    *)
(* scoring statements of analyze_single_log on a loaded engine.            *)
(***************************************************************************)
TestSetSizes == {1, 2, ChunkSize, ChunkSize + 1, ChunkSize + 2}

\* the positions of a test set of n sequences that get an error of their own
Marked(n) == {1, 2, n - 1, n} \cap (1..n)

InitScores ==
    /\ \E results \in (SUBSET Runs) \ {{}} :
          disk = [models |-> Runs, features |-> Runs, results |-> results, partial |-> {}]
    /\ saving = NotSaving
    /\ \E r \in Runs : engine = load_model(NewEngine, r, r, disk).e
    /\ last_load = None
    /\ good_loads = {}
    /\ reload = NoCall
    /\ analyze = NotAnalyzing
    /\ observed = None
    /\ \E n \in TestSetSizes :
          \E p \in Marked(n), q \in Marked(n) :
             \E rest \in 0..MaxError, at_p \in 0..MaxError, at_q \in 0..MaxError :
                inputs = Some([errors |-> [i \in 1..n |->
                                             IF i = p THEN at_p
                                             ELSE IF i = q THEN at_q ELSE rest]])
    /\ outputs = None
    /\ IdleSeq
    /\ IdlePipe
    /\ IdleTrain
    /\ IdleThr
    /\ IdleFit
    /\ IdleOther

GetAnomalyScores ==
    Answered("get_anomaly_scores", get_anomaly_scores(Get(inputs).errors))

EvaluateModel ==
    Answered("evaluate_model", evaluate_model(Get(inputs).errors))

\* analyze_single_log from "Get model predictions" on, for a record whose
\* features were extracted
ScoreRecord ==
    \E log_message \in Messages, source \in SourceNames, log_type \in LogTypes :
        LET call == score_counted(engine, stats, log_message,
                                  [source |-> source, log_type |-> log_type])
        IN AnsweredCounted("analyze_single_log", Get(call.result), call.stats)

NextScores ==
    \/ GetAnomalyScores
    \/ EvaluateModel
    \/ ScoreRecord

SpecScores == InitScores /\ [][NextScores]_vars

(***************************************************************************)
(* C25: for a batch of exactly one sequence with a positive finite         *)
(* reconstruction error, get_anomaly_scores returns sigmoid(1) whatever    *)
(* the input is; so whenever analyze_single_log reaches scoring, the       *)
(* anomaly_score and the confidence are that constant and the threat_level *)
(* is 'high' for every log message, whether is_threat is true or false.    *)
(***************************************************************************)
SigmoidOfOne == sigmoid(1, 1)

BatchOfOneScoresSigmoidOfOne ==
    outputs # None =>
        LET o == Get(outputs)
        IN /\ (/\ o.op = "get_anomaly_scores"
               /\ Len(Get(inputs).errors) = 1
               /\ Get(inputs).errors[1] > 0) =>
                  o.outcome = <<SigmoidOfOne>>
           /\ (o.op = "analyze_single_log" /\ o.outcome.reconstruction_error > 0) =>
                  /\ o.outcome.anomaly_score = SigmoidOfOne
                  /\ o.outcome.confidence = SigmoidOfOne
                  /\ o.outcome.threat_level = "high"

\* a record whose error is above zero and not above the threshold was scored:
\* it is not a threat and its level is 'high'
BatchOfOneScoresSigmoidOfOneWitness ==
    /\ outputs # None
    /\ Get(outputs).op = "analyze_single_log"
    /\ Get(outputs).outcome.reconstruction_error > 0
    /\ ~Get(outputs).outcome.is_threat
    /\ Get(outputs).outcome.threat_level = "high"

\* a record whose error is above the threshold was scored
ThreatScored ==
    /\ outputs # None
    /\ Get(outputs).op = "analyze_single_log"
    /\ Get(outputs).outcome.is_threat

\* a batch of one sequence with an error above zero was scored
BatchOfOneScored ==
    /\ outputs # None
    /\ Get(outputs).op = "get_anomaly_scores"
    /\ Len(Get(inputs).errors) = 1
    /\ Get(inputs).errors[1] > 1

(***************************************************************************)
(* C29: in evaluate_model the anomaly scores handed to ROC-AUC keep the    *)
(* order of the reconstruction errors over the whole test set, also across *)
(* the chunks of 32 it is scored in: a sequence with a smaller error than  *)
(* another never has a larger score.  (Stated for the pairs whose scores   *)
(* are numbers.)                                                           *)
(***************************************************************************)
ScoresKeepTheOrderOfErrors ==
    (outputs # None /\ Get(outputs).op = "evaluate_model") =>
        LET errors == Get(outputs).outcome.reconstruction_errors
            scores == Get(outputs).outcome.anomaly_scores
        IN \A a \in 1..Len(errors), b \in 1..Len(errors) :
              (errors[a] < errors[b] /\ scores[a] >= 0 /\ scores[b] >= 0) =>
                  scores[a] <= scores[b]

(***************************************************************************)
(* SpecRefit: one extractor over several calls: prepare_for_training on    *)
(* the splits of a training run, statement by statement, then              *)
(* save_feature_config, load_feature_config or prepare_for_training on the *)
(* training split of another run.  Nothing has been saved at the start.    *)
(***************************************************************************)
MaxCalls == 2         \* calls of prepare_for_training on the extractor

InitRefit ==
    /\ \E columns \in TrainColumns,
          train \in [1..2 -> Cells], val \in [1..1 -> Cells], test \in [1..1 -> Cells] :
          inputs = Some([train_features |-> DataFrame(columns, train),
                         val_features |-> DataFrame(Reverse(columns), val),
                         test_features |-> DataFrame(columns, test),
                         call |-> 1])
    /\ outputs = None
    /\ \E k \in 1..2 : extractor = Some(NewExtractor(k))
    /\ fit_pc = "select_fit"
    /\ IdleOther
    /\ IdleSeq
    /\ IdlePipe
    /\ IdleTrain
    /\ IdleThr
    /\ IdleEng

\* the variables a call on the extractor or on the file leaves alone
notFitFileVars ==
    <<inputs, outputs, seqVars, pipeVars, trainVars, thrVars, engVars, statVars, getVars>>

\* prepare_for_training is called again, with the splits of another run
PrepareForTraining ==
    /\ fit_pc = "fitted"
    /\ Get(inputs).call < MaxCalls
    /\ \E columns \in TrainColumns,
          train \in [1..2 -> Cells], val \in [1..1 -> Cells], test \in [1..1 -> Cells] :
          inputs' = Some([train_features |-> DataFrame(columns, train),
                          val_features |-> DataFrame(Reverse(columns), val),
                          test_features |-> DataFrame(columns, test),
                          call |-> Get(inputs).call + 1])
    /\ fit_pc' = "select_fit"
    /\ UNCHANGED <<extractor, outputs, notFitCallVars>>

SaveFeatureConfig ==
    /\ fit_pc = "fitted"
    /\ feature_config' = Some(save_feature_config(Get(extractor)))
    /\ UNCHANGED <<extractor, fit_pc, notFitFileVars>>

LoadFeatureConfig ==
    /\ fit_pc = "fitted"
    /\ feature_config # None
    /\ extractor' = Some(load_feature_config(Get(extractor), Get(feature_config)))
    /\ UNCHANGED <<feature_config, fit_pc, notFitFileVars>>

NextRefit ==
    \/ FitSelector
    \/ SelectTransform
    \/ ScaleFit
    \/ ScaleTransform
    \/ PrepareForTraining
    \/ SaveFeatureConfig
    \/ LoadFeatureConfig

SpecRefit == InitRefit /\ [][NextRefit]_vars

(***************************************************************************)
(* C26: after any sequence of prepare_for_training and load_feature_config *)
(* calls on one extractor, the feature selector and the scaler were fitted *)
(* on the same training split: there is no state in which the selector     *)
(* comes from one training set and the scaler from another.                *)
(***************************************************************************)
SelectorAndScalerOfOneSplit ==
    fit_pc = "fitted" =>
        LET feature_selector == Get(Get(extractor).feature_selector)
        IN Get(Get(extractor).scaler)
              = scaler_fit(TakeColumns(feature_selector.scores, feature_selector.support))

(***************************************************************************)
(* SpecGet: request threads of the threaded server inside                  *)
(* get_inference_engine, one statement at a time, with the module-level    *)
(* _inference_engine still None when they arrive.  An instance is the      *)
(* index of its construction; it keeps how many calls of                   *)
(* auto_load_latest_model are in progress on it and how many have returned *)
(* or raised.  No lock is taken.                                           *)
(***************************************************************************)
MaxThreads == 3       \* request threads inside get_inference_engine

Arriving == [pc |-> "test", received |-> None]

\* ThreatDetectionEngine.__init__, as far as get_inference_engine goes
NewInstance == [in_progress |-> 0, completed |-> 0]

\* where the load of an instance is: "pending" before auto_load_latest_model
\* is called on it, "running" while a call is inside it, "finished" when
\* every call made on it has returned or raised
auto_load(instance) ==
    IF instance.in_progress > 0 THEN "running"
    ELSE IF instance.completed > 0 THEN "finished"
    ELSE "pending"

InitGet ==
    /\ _inference_engine = None
    /\ constructed = <<>>
    /\ callers = [t \in 1..MaxThreads |-> Arriving]
    /\ feature_config = None
    /\ stats = NewStats
    /\ IdleSeq
    /\ IdlePipe
    /\ IdleTrain
    /\ IdleThr
    /\ IdleEng
    /\ IdleCall
    /\ IdleFit

notGetVars ==
    <<seqVars, pipeVars, trainVars, thrVars, engVars, callVars, fitVars, fileVars, statVars>>

\* `if _inference_engine is None:`
TestGlobal(t) ==
    /\ callers[t].pc = "test"
    /\ callers' = [callers EXCEPT ![t].pc = IF _inference_engine = None
                                            THEN "construct" ELSE "return"]
    /\ UNCHANGED <<_inference_engine, constructed, notGetVars>>

\* `_inference_engine = ThreatDetectionEngine()`
ConstructEngine(t) ==
    /\ callers[t].pc = "construct"
    /\ constructed' = Append(constructed, NewInstance)
    /\ _inference_engine' = Some(Len(constructed) + 1)
    /\ callers' = [callers EXCEPT ![t].pc = "auto_load"]
    /\ UNCHANGED notGetVars

\* `_inference_engine.auto_load_latest_model()` is entered, on the instance
\* the global refers to now
AutoLoadStart(t) ==
    /\ callers[t].pc = "auto_load"
    /\ constructed' = [constructed EXCEPT ![Get(_inference_engine)].in_progress = @ + 1]
    /\ callers' = [callers EXCEPT ![t] = [pc |-> "loading",
                                          received |-> None,
                                          loading |-> Get(_inference_engine)]]
    /\ UNCHANGED <<_inference_engine, notGetVars>>

\* the call returns, or raises and the warning is logged
AutoLoadEnd(t) ==
    /\ callers[t].pc = "loading"
    /\ constructed' = [constructed EXCEPT ![callers[t].loading].in_progress = @ - 1,
                                          ![callers[t].loading].completed = @ + 1]
    /\ callers' = [callers EXCEPT ![t] = [pc |-> "return", received |-> None]]
    /\ UNCHANGED <<_inference_engine, notGetVars>>

\* `return _inference_engine`: the caller has the instance, in the state its
\* load is in at that moment
ReturnEngine(t) ==
    /\ callers[t].pc = "return"
    /\ callers' = [callers EXCEPT ![t] =
            [pc |-> "done",
             received |-> Some([instance |-> Get(_inference_engine),
                                auto_load |-> auto_load(constructed[Get(_inference_engine)])])]]
    /\ UNCHANGED <<_inference_engine, constructed, notGetVars>>

NextGet ==
    \E t \in 1..MaxThreads :
        \/ TestGlobal(t)
        \/ ConstructEngine(t)
        \/ AutoLoadStart(t)
        \/ AutoLoadEnd(t)
        \/ ReturnEngine(t)

SpecGet == InitGet /\ [][NextGet]_vars

(***************************************************************************)
(* C27: under concurrent first calls to get_inference_engine from several  *)
(* request threads, at most one ThreatDetectionEngine is ever constructed, *)
(* all callers receive that same instance, and no caller receives it       *)
(* before its auto_load_latest_model attempt has finished.                 *)
(***************************************************************************)
OneEngineForAllCallers ==
    /\ Len(constructed) <= 1
    /\ \A t \in 1..MaxThreads, u \in 1..MaxThreads :
          (callers[t].received # None /\ callers[u].received # None) =>
              Get(callers[t].received).instance = Get(callers[u].received).instance
    /\ \A t \in 1..MaxThreads :
          callers[t].received # None =>
              Get(callers[t].received).auto_load = "finished"

(***************************************************************************)
(* SpecCount: one engine answering analyze_single_log calls one after the  *)
(* other, with its performance counters.  outputs is the list of what the  *)
(* calls returned or raised, in order.  A call either goes the way         *)
(* analyze_single_log goes today, or is a record whose features were       *)
(* extracted and which is scored by the statements after extraction.       *)
(***************************************************************************)
MaxRequests == 3      \* calls answered by the engine

InitCount ==
    /\ \E results \in (SUBSET Runs) \ {{}} :
          disk = [models |-> Runs, features |-> Runs, results |-> results, partial |-> {}]
    /\ saving = NotSaving
    /\ \E r \in Runs : engine \in {NewEngine, load_model(NewEngine, r, r, disk).e}
    /\ last_load = None
    /\ good_loads = {}
    /\ reload = NoCall
    /\ analyze = NotAnalyzing
    /\ observed = None
    /\ inputs = None
    /\ outputs = <<>>
    /\ stats = NewStats
    /\ feature_config = None
    /\ _inference_engine = None
    /\ constructed = <<>>
    /\ callers = <<>>
    /\ IdleSeq
    /\ IdlePipe
    /\ IdleTrain
    /\ IdleThr
    /\ IdleFit

notCountVars ==
    <<inputs, seqVars, pipeVars, trainVars, thrVars, engVars, fitVars, fileVars, getVars>>

Counted(call) ==
    /\ Len(outputs) < MaxRequests
    /\ outputs' = Append(outputs, [raised |-> call.raised, result |-> call.result])
    /\ stats' = call.stats
    /\ UNCHANGED notCountVars

AnalyzeSingleLogCounted ==
    \E log_message \in Messages, source \in SourceNames :
        Counted(analyze_single_log_counted(engine, stats, log_message,
                                           [source |-> source, log_type |-> "system"]))

ScoreRecordCounted ==
    /\ engine.is_loaded
    /\ \E log_message \in Messages, source \in SourceNames :
          Counted(score_counted(engine, stats, log_message,
                                [source |-> source, log_type |-> "system"]))

NextCount ==
    \/ AnalyzeSingleLogCounted
    \/ ScoreRecordCounted

SpecCount == InitCount /\ [][NextCount]_vars

\* the calls so far that returned a model verdict
VerdictCalls ==
    {i \in 1..Len(outputs) :
        ~outputs[i].raised /\ "error" \notin DOMAIN Get(outputs[i].result)}

(***************************************************************************)
(* C28: after any sequence of sequential analyze_single_log calls on one   *)
(* engine, detection_count equals len(inference_times) and the number of   *)
(* calls that returned a model verdict, threat_count equals the number of  *)
(* those verdicts with is_threat true (so threat_count <= detection_count),*)
(* and a call that raises or returns the error result leaves the three     *)
(* counters unchanged.                                                     *)
(***************************************************************************)
CountersCountVerdicts ==
    /\ stats.detection_count = Cardinality(VerdictCalls)
    /\ Len(stats.inference_times) = stats.detection_count
    /\ stats.threat_count
          = Cardinality({i \in VerdictCalls : Get(outputs[i].result).is_threat})
    /\ stats.threat_count <= stats.detection_count

\* an error result, a verdict that is a threat and a verdict that is none
CountersCountVerdictsWitness ==
    /\ \E i \in 1..Len(outputs) :
          ~outputs[i].raised /\ "error" \in DOMAIN Get(outputs[i].result)
    /\ \E i \in VerdictCalls : Get(outputs[i].result).is_threat
    /\ \E i \in VerdictCalls : ~Get(outputs[i].result).is_threat

\* a call on an engine that is not loaded raised
RaisedCallCounted ==
    /\ \E i \in 1..Len(outputs) : outputs[i].raised
    /\ stats = NewStats

(***************************************************************************)
(* The initial hidden state of the decoder.  A tensor is a function of its *)
(* indices, counted from 0.  decoder_init works row by row: unit j of the  *)
(* row of batch element b is a function of the latent vector of b alone,   *)
(* and is kept as [element |-> b, unit |-> j].                             *)
(***************************************************************************)
MaxBatchSize == 3     \* sequences in a batch given to decode

effective_hidden_dim(model) == model.hidden_dim * (IF model.bidirectional THEN 2 ELSE 1)

\* self.decoder_init(latent): shape (batch_size, effective_hidden_dim)
decoder_init(model, batch_size) ==
    [b \in 0..(batch_size - 1) |->
        [j \in 0..(effective_hidden_dim(model) - 1) |-> [element |-> b, unit |-> j]]]

\* t.unsqueeze(0).repeat(n, 1, 1): shape (n, batch_size, effective_hidden_dim)
Repeat(t, n) == [l \in 0..(n - 1) |-> t]

\* t.view(d0, d1, d2) of a contiguous tensor of shape (n0, n1, n2): the
\* element at [i][k][j] is the one at offset i * d1 * d2 + k * d2 + j
View(t, n1, n2, d0, d1, d2) ==
    [i \in 0..(d0 - 1) |->
        [k \in 0..(d1 - 1) |->
            [j \in 0..(d2 - 1) |->
                LET offset == i * d1 * d2 + k * d2 + j
                IN t[offset \div (n1 * n2)][(offset % (n1 * n2)) \div n2][offset % n2]]]]

\* decode, up to init_hidden as it is handed to the decoder LSTM: shape
\* (num_layers * directions, batch_size, hidden_dim)
init_hidden(model, batch_size) ==
    LET repeated == Repeat(decoder_init(model, batch_size), model.num_layers)
    IN IF model.bidirectional
       THEN View(repeated, batch_size, effective_hidden_dim(model),
                 model.num_layers * 2, batch_size, model.hidden_dim)
       ELSE repeated

(***************************************************************************)
(* SpecDecode: a network in eval mode decodes a batch of latent vectors.   *)
(***************************************************************************)
InitDecode ==
    /\ \E model_config \in ModelConfigs, batch_size \in 1..MaxBatchSize :
          inputs = Some([model |-> module_eval(LSTMAutoencoder(model_config)),
                         batch_size |-> batch_size])
    /\ outputs = None
    /\ IdleSeq
    /\ IdlePipe
    /\ IdleTrain
    /\ IdleThr
    /\ IdleEng
    /\ IdleFit
    /\ IdleOther

Decode ==
    /\ outputs = None
    /\ outputs' = Some([op |-> "decode",
                        init_hidden |-> init_hidden(Get(inputs).model,
                                                    Get(inputs).batch_size)])
    /\ UNCHANGED <<inputs, notCallVars>>

NextDecode == Decode

SpecDecode == InitDecode /\ [][NextDecode]_vars

(***************************************************************************)
(* C30: for every configuration, bidirectional = True and a batch of more  *)
(* than one sequence included, the initial decoder hidden state of batch   *)
(* element b is built only from the latent vector of element b, so in eval *)
(* mode the reconstruction of a sequence does not depend on the sequences  *)
(* that share its batch.                                                   *)
(***************************************************************************)
HiddenStateOfItsOwnLatent ==
    (outputs # None /\ Get(outputs).op = "decode") =>
        LET h == Get(outputs).init_hidden
        IN \A l \in DOMAIN h : \A b \in DOMAIN h[l] : \A j \in DOMAIN h[l][b] :
              h[l][b][j].element = b

====
